---- MODULE Spec2Model ----
(***************************************************************************)
(* Model of the MCP client transports (mcp_client.py), of the              *)
(* tool-calling chat loop (chat_with_mcp.py) and of the simple chat        *)
(* (chat.py).                                                              *)
(*                                                                         *)
(* One transport object is modelled; its variant (stdio / sse / http) is   *)
(* chosen at construction.  The far side (the child process, the HTTP      *)
(* server, the reasoning engine) is the environment: every answer it can   *)
(* give is drawn from a small set with \E.                                 *)
(***************************************************************************)
EXTENDS Integers, Sequences, FiniteSets, TLC

VARIABLES
    kind,        \* which transport class was constructed
    process,     \* StdioTransport.process: 0 is None, n > 0 the n-th child
    client,      \* SSETransport.client / HTTPTransport.client: 0 is None
    request_id,  \* self.request_id
    children,    \* child processes spawned by the transport and still running
    clients,     \* httpx clients created by the transport and not yet closed
    sent,        \* ids of the requests handed to the channel, in order
    connects,    \* number of connect() calls made so far
    conn,        \* how the latest connect()/disconnect() ended
    last,        \* the latest operation: its input and its outcome
    stream,      \* an SSE stream handed to the line loop of SSETransport
    scan,        \* the outcome of the line loop on that stream
    provider,    \* "openai" or "bedrock", as get_llm_provider() chose
    pc,          \* where the chat turn stands: idle, loop (top of while), tools
    iteration,   \* the local variable iteration
    messages,    \* the turn-local list messages
    conversation_history,
    decision,    \* the decision being executed (assistant_message / response)
    idx,         \* index of the next tool call of the decision to execute
    tool_results,\* Bedrock: the local list tool_results
    answer,      \* the text returned by the latest finished turn
    ending,      \* how the latest finished turn ended
    engineCalls, \* engine calls made in the current (or latest) turn
    allTools,    \* every engine call of the turn so far brought a decision
                 \* with at least one tool call, each with decodable arguments
    turns,       \* turns started so far
    asked,       \* queries typed at the prompt so far; the current one is
                 \* numbered by it
    returned,    \* the history the latest finished turn returned to main(),
                 \* before the cap
    inflight,    \* call_mcp_tool invocations started and not yet returned
    round,       \* the latest tools round of the turn: its number, its
                 \* requests, the ids invoked so far and the positions of
                 \* the requests whose processing failed
    results,     \* the tool results appended in the turn so far
    shown,       \* the message list handed to the latest engine call
    script,      \* the decisions both bindings are run on, when they are
    first,       \* the outcome of the first binding run on the script
    result,      \* smart_truncate_result: the value given
    max_chars,   \* smart_truncate_result: the budget given
    bounded,     \* smart_truncate_result: the string returned
    ctx,         \* EKSMCPClient used as "async with client": where it stands
    environ,     \* os.environ: the two credential variables
    mpc,         \* where main() stands
    detected,    \* what get_llm_provider() returned to main()
    status,      \* the value main() returned (the exit status), once it has
    server,      \* what main() has done to the tool server so far
    mcp_tools,   \* main(): the descriptors list_tools() returned
    llm_tools,   \* main(): the schemas the descriptors were converted to
    tasks        \* the asyncio tasks calling the transport: where each stands
                 \* and the id of the request it built

tvars == <<kind, process, client, request_id, children, clients, sent,
           connects, conn, last>>
svars == <<stream, scan>>
cvars == <<provider, pc, iteration, messages, conversation_history, decision,
           idx, tool_results, answer, ending, engineCalls, allTools, turns,
           asked, returned, inflight, round, results, shown, script, first>>
bvars == <<result, max_chars, bounded>>
xvars == <<ctx>>
mvars == <<environ, mpc, detected, status, server, mcp_tools, llm_tools>>
kvars == <<tasks>>
vars == <<tvars, svars, cvars, bvars, xvars, mvars, kvars>>

(***************************************************************************)
(* Bounds of the model.                                                    *)
(***************************************************************************)
MaxConnects == 2        \* connect() calls per transport
MaxRequests == 3        \* list_tools()/call_tool() calls per transport
MaxEvents == 2          \* lines of an SSE stream answered to a transport call
MaxStream == 4          \* lines of an SSE stream given to the line loop alone
MaxTurns == 1           \* chat turns after the chat loop is entered
MaxChars == 12          \* the largest budget given to smart_truncate_result
MaxText == 3            \* characters of a string given to smart_truncate_result
MaxExchanges == 11      \* turns of the simple chat (chat.py)
MaxTasks == 2           \* asyncio tasks calling one transport concurrently

(***************************************************************************)
(* Values on the wire.                                                     *)
(***************************************************************************)
Kinds == {"stdio", "sse", "http"}

\* Result payloads: an object with a "tools" array, an object without one,
\* an {"error": ...} object returned as data, and a JSON value that is not
\* an object.
Payloads == {"tools1", "plain", "marker", "scalar"}
ErrPayloads == {"e1", "e2"}

IsObject(p) == p # "scalar"

\* response["result"].get("tools", [])
ToolsOf(p) == IF p = "tools1" THEN <<"t1">> ELSE <<>>

\* A decoded JSON object: which of the keys "result" / "error" it has.
Res(p) == [keys |-> {"result"}, result |-> p, error |-> "none"]
Err(e) == [keys |-> {"error"}, result |-> "none", error |-> e]
Both(p, e) == [keys |-> {"result", "error"}, result |-> p, error |-> e]
Neither == [keys |-> {}, result |-> "none", error |-> "none"]

Envelopes ==
    {Res(p) : p \in Payloads} \cup {Err(e) : e \in ErrPayloads}
    \cup {Both(p, e) : p \in {"plain", "tools1"}, e \in {"e1"}} \cup {Neither}

\* What the child process answers on its stdout (or the write fails).
StdioResponses ==
    {[line |-> l, env |-> Neither] : l \in {"pipe", "eof", "garbage"}}
    \cup {[line |-> "json", env |-> e] : e \in Envelopes}

\* What an HTTP POST brings back.
HTTPResponses ==
    {[net |-> "error", status |-> 0, body |-> "none", env |-> Neither]}
    \cup {[net |-> "ok", status |-> s, body |-> "garbage", env |-> Neither] :
             s \in {200, 500}}
    \cup {[net |-> "ok", status |-> s, body |-> "json", env |-> e] :
             s \in {200, 404, 500}, e \in Envelopes}

\* One line of an SSE stream.
NonData == [data |-> FALSE, json |-> "none", env |-> Neither]
GarbageData == [data |-> TRUE, json |-> "garbage", env |-> Neither]
DataLine(e) == [data |-> TRUE, json |-> "ok", env |-> e]
SSEEnvelopes ==
    {Res("plain"), Res("tools1"), Res("marker"), Err("e1"), Err("e2"), Neither}
SSELines == {NonData, GarbageData} \cup {DataLine(e) : e \in SSEEnvelopes}

SeqUpTo(S, n) == UNION {[1..k -> S] : k \in 0..n}

\* The streams answered to a call of the transport are drawn from fewer
\* kinds of line than the streams given to the line loop alone.
SSECallLines ==
    {GarbageData, DataLine(Res("tools1")), DataLine(Res("marker")),
     DataLine(Err("e1")), DataLine(Neither)}

SSEResponses ==
    {[net |-> "error", lines |-> <<>>]}
    \cup {[net |-> "ok", lines |-> ls] : ls \in SeqUpTo(SSECallLines, MaxEvents)}

\* Outcomes of the GET /health of connect().
HealthOutcomes == {"200", "204", "503", "neterr"}
SpawnOutcomes == {"spawned", "spawnfail"}

(***************************************************************************)
(* Outcome of an operation: a returned value or a raised exception.        *)
(***************************************************************************)
Return(tools, payload) ==
    [type |-> "return", exc |-> "none", errp |-> "none",
     tools |-> tools, payload |-> payload, read |-> 0]
Raise(exc, errp) ==
    [type |-> "raise", exc |-> exc, errp |-> errp,
     tools |-> <<>>, payload |-> "none", read |-> 0]

NoResp == [line |-> "none"]

\* What the environment did to a connect() attempt.
Tried(o) == [tried |-> o]

Log(op, out, ret, acted, resp) ==
    [op |-> op, type |-> out.type, exc |-> out.exc, errp |-> out.errp,
     tools |-> out.tools, payload |-> out.payload, read |-> out.read,
     ret |-> ret, acted |-> acted, resp |-> resp,
     preConn |-> conn, preConnects |-> connects,
     preHandle |-> IF kind = "stdio" THEN process ELSE client,
     preReq |-> request_id, preSent |-> Len(sent)]

InitLog ==
    [op |-> "init", type |-> "return", exc |-> "none", errp |-> "none",
     tools |-> <<>>, payload |-> "none", read |-> 0,
     ret |-> FALSE, acted |-> FALSE, resp |-> NoResp,
     preConn |-> "never", preConnects |-> 0, preHandle |-> 0,
     preReq |-> 0, preSent |-> 0]

TInit ==
    /\ kind \in Kinds
    /\ process = 0
    /\ client = 0
    /\ request_id = 0
    /\ children = {}
    /\ clients = {}
    /\ sent = <<>>
    /\ connects = 0
    /\ conn = "never"
    /\ last = InitLog

(***************************************************************************)
(* EKSMCPClient as a context manager: "async with client" calls connect()  *)
(* on the way in (__aenter__) and disconnect() on the way out (__aexit__). *)
(* ctx is "direct" for a transport whose methods are called directly,      *)
(* "out" before the with statement and after it, "in" inside its body.     *)
(***************************************************************************)
\* __aenter__: "await self.connect()" then "return self", whatever connect()
\* returned.
Entered == ctx' = IF ctx = "out" THEN "in" ELSE ctx

\* __aexit__: "await self.disconnect()"; the body is left also when it raises.
Exited == ctx' = IF ctx = "in" THEN "out" ELSE ctx

(***************************************************************************)
(* StdioTransport                                                          *)
(***************************************************************************)
\* connect(): the spawn either succeeds or raises inside the try block.
Stdio_connect(o) ==
    /\ kind = "stdio"
    /\ connects < MaxConnects
    /\ connects' = connects + 1
    /\ IF o = "spawned"
       THEN /\ process' = connects + 1
            /\ children' = children \cup {connects + 1}
            /\ conn' = "ok"
            /\ last' = Log("connect", Return(<<>>, "none"), TRUE, FALSE, Tried(o))
       ELSE /\ UNCHANGED <<process, children>>
            /\ conn' = "spawnfail"
            /\ last' = Log("connect", Return(<<>>, "none"), FALSE, FALSE, Tried(o))
    /\ UNCHANGED <<kind, client, request_id, clients, sent>>
    /\ Entered
    /\ UNCHANGED <<svars, cvars, bvars, mvars, kvars>>

\* disconnect(): terminate() and wait() when self.process is set.  On a
\* child that has already exited, terminate() raises ProcessLookupError
\* (asyncio has dropped the process handle) and self.process stays set.
Stdio_disconnect ==
    /\ kind = "stdio"
    /\ IF process = 0
       THEN /\ UNCHANGED <<process, children>>
            /\ conn' = "disconnected"
            /\ last' = Log("disconnect", Return(<<>>, "none"), FALSE, FALSE, NoResp)
       ELSE IF process \notin children
       THEN /\ UNCHANGED <<process, children, conn>>
            /\ last' = Log("disconnect", Raise("ProcessLookupError", "none"),
                           FALSE, TRUE, NoResp)
       ELSE /\ children' = children \ {process}
            /\ process' = 0
            /\ conn' = "disconnected"
            /\ last' = Log("disconnect", Return(<<>>, "none"), FALSE, TRUE, NoResp)
    /\ UNCHANGED <<kind, client, request_id, clients, sent, connects>>
    /\ Exited
    /\ UNCHANGED <<svars, cvars, bvars, mvars, kvars>>

\* The child process ends by itself (the server crashes or exits); the
\* transport only notices through an empty readline() or a failed write.
Stdio_child_exit(c) ==
    /\ kind = "stdio"
    /\ c \in children
    /\ children' = children \ {c}
    /\ UNCHANGED <<kind, process, client, request_id, clients, sent,
                   connects, conn, last>>
    /\ UNCHANGED <<svars, cvars, bvars, xvars, mvars, kvars>>

\* A child that is gone can only yield a failed write or an end of file.
StdioAnswers ==
    IF process # 0 /\ process \notin children
    THEN {r \in StdioResponses : r.line \in {"pipe", "eof"}}
    ELSE StdioResponses

Stdio_send_request_unchecked(resp) ==
    IF resp.line = "pipe" THEN [ok |-> FALSE, out |-> Raise("BrokenPipe", "none")]
    ELSE IF resp.line = "eof" THEN [ok |-> FALSE, out |-> Raise("NoResponse", "none")]
    ELSE IF resp.line = "garbage"
    THEN [ok |-> FALSE, out |-> Raise("JSONDecodeError", "none")]
    ELSE [ok |-> TRUE, out |-> Return(<<>>, "none")]

\* _send_request(): the connection check, the write, the readline and the
\* json.loads.  Returns the decoded object or raises.
Stdio_send_request(resp) ==
    IF process = 0 THEN [ok |-> FALSE, out |-> Raise("NotConnected", "none")]
    ELSE IF resp.line = "pipe" THEN [ok |-> FALSE, out |-> Raise("BrokenPipe", "none")]
    ELSE IF resp.line = "eof" THEN [ok |-> FALSE, out |-> Raise("NoResponse", "none")]
    ELSE IF resp.line = "garbage"
    THEN [ok |-> FALSE, out |-> Raise("JSONDecodeError", "none")]
    ELSE [ok |-> TRUE, out |-> Return(<<>>, "none")]

\* The request is written to stdin only past the connection check.
Stdio_written(id) == IF process = 0 THEN sent ELSE Append(sent, id)

\* Interpretation of a decoded response by list_tools().
ListOutcome(env) ==
    IF "result" \in env.keys
    THEN IF IsObject(env.result) THEN Return(ToolsOf(env.result), "none")
         ELSE Raise("AttributeError", "none")
    ELSE IF "error" \in env.keys THEN Raise("RemoteError", env.error)
    ELSE Return(<<>>, "none")

CallOutcome_marker_raises(env) ==
    IF "result" \in env.keys
    THEN IF env.result = "marker" THEN Raise("RemoteError", "marker")
         ELSE Return(<<>>, env.result)
    ELSE IF "error" \in env.keys THEN Raise("RemoteError", env.error)
    ELSE Return(<<>>, "None")

\* Interpretation of a decoded response by call_tool().
CallOutcome(env) ==
    IF "result" \in env.keys THEN Return(<<>>, env.result)
    ELSE IF "error" \in env.keys THEN Raise("RemoteError", env.error)
    ELSE Return(<<>>, "None")

Stdio_list_tools(resp) ==
    /\ kind = "stdio"
    /\ request_id < MaxRequests
    /\ resp \in StdioAnswers
    /\ request_id' = request_id + 1
    /\ sent' = Stdio_written(request_id + 1)
    /\ LET r == Stdio_send_request(resp)
           used == IF process = 0 THEN NoResp ELSE resp
       IN last' = Log("list_tools",
                      IF r.ok THEN ListOutcome(resp.env) ELSE r.out,
                      FALSE, FALSE, used)
    /\ UNCHANGED <<kind, process, client, children, clients, connects, conn>>
    /\ UNCHANGED <<svars, cvars, bvars, xvars, mvars, kvars>>

Stdio_call_tool(resp) ==
    /\ kind = "stdio"
    /\ request_id < MaxRequests
    /\ resp \in StdioAnswers
    /\ request_id' = request_id + 1
    /\ sent' = Stdio_written(request_id + 1)
    /\ LET r == Stdio_send_request(resp)
           used == IF process = 0 THEN NoResp ELSE resp
       IN last' = Log("call_tool",
                      IF r.ok THEN CallOutcome(resp.env) ELSE r.out,
                      FALSE, FALSE, used)
    /\ UNCHANGED <<kind, process, client, children, clients, connects, conn>>
    /\ UNCHANGED <<svars, cvars, bvars, xvars, mvars, kvars>>

(***************************************************************************)
(* SSETransport and HTTPTransport: connect() and disconnect() are the same *)
(* code in both classes.                                                   *)
(***************************************************************************)
Client_connect_any_2xx(h) ==
    /\ connects < MaxConnects
    /\ connects' = connects + 1
    /\ client' = connects + 1
    /\ clients' = clients \cup {connects + 1}
    /\ conn' = IF h \in {"200", "204"} THEN "ok"
               ELSE IF h = "neterr" THEN "neterr" ELSE "non200"
    /\ last' = Log("connect", Return(<<>>, "none"), h \in {"200", "204"},
                   FALSE, Tried(h))
    /\ UNCHANGED <<kind, process, request_id, children, sent>>
    /\ Entered
    /\ UNCHANGED <<svars, cvars, bvars, mvars, kvars>>

\* connect(): self.client is assigned before GET /health is tried, so it is
\* set whatever the health check brings.
Client_connect(h) ==
    /\ connects < MaxConnects
    /\ connects' = connects + 1
    /\ client' = connects + 1
    /\ clients' = clients \cup {connects + 1}
    /\ conn' = IF h = "200" THEN "ok" ELSE IF h = "neterr" THEN "neterr" ELSE "non200"
    /\ last' = Log("connect", Return(<<>>, "none"), h = "200", FALSE, Tried(h))
    /\ UNCHANGED <<kind, process, request_id, children, sent>>
    /\ Entered
    /\ UNCHANGED <<svars, cvars, bvars, mvars, kvars>>

Client_disconnect_keeps_client ==
    /\ IF client = 0
       THEN /\ UNCHANGED <<client, clients>>
            /\ last' = Log("disconnect", Return(<<>>, "none"), FALSE, FALSE, NoResp)
       ELSE /\ clients' = clients \ {client}
            /\ UNCHANGED client
            /\ last' = Log("disconnect", Return(<<>>, "none"), FALSE, TRUE, NoResp)
    /\ conn' = "disconnected"
    /\ UNCHANGED <<kind, process, request_id, children, sent, connects>>
    /\ Exited
    /\ UNCHANGED <<svars, cvars, bvars, mvars, kvars>>

\* disconnect() without its "if self.client": aclose() is called on None.
Client_disconnect_unguarded ==
    /\ IF client = 0
       THEN /\ UNCHANGED <<client, clients, conn>>
            /\ last' = Log("disconnect", Raise("AttributeError", "none"),
                           FALSE, TRUE, NoResp)
       ELSE /\ clients' = clients \ {client}
            /\ client' = 0
            /\ conn' = "disconnected"
            /\ last' = Log("disconnect", Return(<<>>, "none"), FALSE, TRUE, NoResp)
    /\ UNCHANGED <<kind, process, request_id, children, sent, connects>>
    /\ Exited
    /\ UNCHANGED <<svars, cvars, bvars, mvars, kvars>>

\* disconnect(): aclose() when self.client is set.
Client_disconnect ==
    /\ IF client = 0
       THEN /\ UNCHANGED <<client, clients>>
            /\ last' = Log("disconnect", Return(<<>>, "none"), FALSE, FALSE, NoResp)
       ELSE /\ clients' = clients \ {client}
            /\ client' = 0
            /\ last' = Log("disconnect", Return(<<>>, "none"), FALSE, TRUE, NoResp)
    /\ conn' = "disconnected"
    /\ UNCHANGED <<kind, process, request_id, children, sent, connects>>
    /\ Exited
    /\ UNCHANGED <<svars, cvars, bvars, mvars, kvars>>

SSE_connect(h) == kind = "sse" /\ Client_connect(h)

SSE_disconnect == kind = "sse" /\ Client_disconnect

HTTP_connect(h) == kind = "http" /\ Client_connect(h)

HTTP_disconnect == kind = "http" /\ Client_disconnect

\* The line loop returning at its first result event.
RECURSIVE SSE_scan_first_result(_, _, _, _)
SSE_scan_first_result(lines, i, acc, isList) ==
    IF i > Len(lines) THEN [acc EXCEPT !.read = Len(lines)]
    ELSE LET l == lines[i] IN
         IF ~l.data THEN SSE_scan_first_result(lines, i + 1, acc, isList)
         ELSE IF l.json = "garbage"
         THEN [Raise("JSONDecodeError", "none") EXCEPT !.read = i]
         ELSE IF "result" \in l.env.keys
         THEN IF ~isList
              THEN [Return(<<>>, l.env.result) EXCEPT !.read = i]
              ELSE IF IsObject(l.env.result)
              THEN [Return(ToolsOf(l.env.result), "none") EXCEPT !.read = i]
              ELSE [Raise("AttributeError", "none") EXCEPT !.read = i]
         ELSE IF "error" \in l.env.keys
         THEN [Raise("RemoteError", l.env.error) EXCEPT !.read = i]
         ELSE SSE_scan_first_result(lines, i + 1, acc, isList)

\* The loop over response.aiter_lines(): acc is the value of the local
\* variable (tools / result) so far; the loop ends at the end of the stream
\* or at the first raise.  read is the number of lines consumed.
RECURSIVE SSE_scan(_, _, _, _)
SSE_scan(lines, i, acc, isList) ==
    IF i > Len(lines) THEN [acc EXCEPT !.read = Len(lines)]
    ELSE LET l == lines[i] IN
         IF ~l.data THEN SSE_scan(lines, i + 1, acc, isList)
         ELSE IF l.json = "garbage"
         THEN [Raise("JSONDecodeError", "none") EXCEPT !.read = i]
         ELSE IF "result" \in l.env.keys
         THEN IF ~isList
              THEN SSE_scan(lines, i + 1, Return(<<>>, l.env.result), isList)
              ELSE IF IsObject(l.env.result)
              THEN SSE_scan(lines, i + 1,
                            Return(ToolsOf(l.env.result), "none"), isList)
              ELSE [Raise("AttributeError", "none") EXCEPT !.read = i]
         ELSE IF "error" \in l.env.keys
         THEN [Raise("RemoteError", l.env.error) EXCEPT !.read = i]
         ELSE SSE_scan(lines, i + 1, acc, isList)

SSE_list_tools(resp) ==
    /\ kind = "sse"
    /\ request_id < MaxRequests
    /\ IF client = 0
       THEN /\ UNCHANGED <<request_id, sent>>
            /\ last' = Log("list_tools", Raise("NotConnected", "none"),
                           FALSE, FALSE, NoResp)
       ELSE /\ request_id' = request_id + 1
            /\ sent' = Append(sent, request_id + 1)
            /\ last' = Log("list_tools",
                           IF resp.net = "error" THEN Raise("NetworkError", "none")
                           ELSE SSE_scan(resp.lines, 1, Return(<<>>, "none"), TRUE),
                           FALSE, FALSE, resp)
    /\ UNCHANGED <<kind, process, client, children, clients, connects, conn>>
    /\ UNCHANGED <<svars, cvars, bvars, xvars, mvars, kvars>>

SSE_call_tool(resp) ==
    /\ kind = "sse"
    /\ request_id < MaxRequests
    /\ IF client = 0
       THEN /\ UNCHANGED <<request_id, sent>>
            /\ last' = Log("call_tool", Raise("NotConnected", "none"),
                           FALSE, FALSE, NoResp)
       ELSE /\ request_id' = request_id + 1
            /\ sent' = Append(sent, request_id + 1)
            /\ last' = Log("call_tool",
                           IF resp.net = "error" THEN Raise("NetworkError", "none")
                           ELSE SSE_scan(resp.lines, 1, Return(<<>>, "None"), FALSE),
                           FALSE, FALSE, resp)
    /\ UNCHANGED <<kind, process, client, children, clients, connects, conn>>
    /\ UNCHANGED <<svars, cvars, bvars, xvars, mvars, kvars>>

\* client.post(), raise_for_status() and response.json().
\* The POST, were raise_for_status() left out.
HTTP_post_ignores_status(resp) ==
    IF resp.net = "error" THEN [ok |-> FALSE, out |-> Raise("NetworkError", "none")]
    ELSE IF resp.body = "garbage"
    THEN [ok |-> FALSE, out |-> Raise("JSONDecodeError", "none")]
    ELSE [ok |-> TRUE, out |-> Return(<<>>, "none")]

HTTP_post(resp) ==
    IF resp.net = "error" THEN [ok |-> FALSE, out |-> Raise("NetworkError", "none")]
    ELSE IF ~(resp.status >= 200 /\ resp.status < 300)
    THEN [ok |-> FALSE, out |-> Raise("HTTPStatusError", "none")]
    ELSE IF resp.body = "garbage"
    THEN [ok |-> FALSE, out |-> Raise("JSONDecodeError", "none")]
    ELSE [ok |-> TRUE, out |-> Return(<<>>, "none")]

HTTP_list_tools(resp) ==
    /\ kind = "http"
    /\ request_id < MaxRequests
    /\ IF client = 0
       THEN /\ UNCHANGED <<request_id, sent>>
            /\ last' = Log("list_tools", Raise("NotConnected", "none"),
                           FALSE, FALSE, NoResp)
       ELSE /\ request_id' = request_id + 1
            /\ sent' = Append(sent, request_id + 1)
            /\ LET r == HTTP_post(resp)
               IN last' = Log("list_tools",
                              IF r.ok THEN ListOutcome(resp.env) ELSE r.out,
                              FALSE, FALSE, resp)
    /\ UNCHANGED <<kind, process, client, children, clients, connects, conn>>
    /\ UNCHANGED <<svars, cvars, bvars, xvars, mvars, kvars>>

HTTP_call_tool(resp) ==
    /\ kind = "http"
    /\ request_id < MaxRequests
    /\ IF client = 0
       THEN /\ UNCHANGED <<request_id, sent>>
            /\ last' = Log("call_tool", Raise("NotConnected", "none"),
                           FALSE, FALSE, NoResp)
       ELSE /\ request_id' = request_id + 1
            /\ sent' = Append(sent, request_id + 1)
            /\ LET r == HTTP_post(resp)
               IN last' = Log("call_tool",
                              IF r.ok THEN CallOutcome(resp.env) ELSE r.out,
                              FALSE, FALSE, resp)
    /\ UNCHANGED <<kind, process, client, children, clients, connects, conn>>
    /\ UNCHANGED <<svars, cvars, bvars, xvars, mvars, kvars>>

(***************************************************************************)
(* The transport as a state machine: any operation may be called at any    *)
(* time, in any order.                                                     *)
(***************************************************************************)
TNext ==
    \/ \E o \in SpawnOutcomes : Stdio_connect(o)
    \/ Stdio_disconnect
    \/ \E c \in children : Stdio_child_exit(c)
    \/ \E r \in StdioResponses : Stdio_list_tools(r)
    \/ \E r \in StdioResponses : Stdio_call_tool(r)
    \/ \E h \in HealthOutcomes : SSE_connect(h)
    \/ SSE_disconnect
    \/ \E r \in SSEResponses : SSE_list_tools(r)
    \/ \E r \in SSEResponses : SSE_call_tool(r)
    \/ \E h \in HealthOutcomes : HTTP_connect(h)
    \/ HTTP_disconnect
    \/ \E r \in HTTPResponses : HTTP_list_tools(r)
    \/ \E r \in HTTPResponses : HTTP_call_tool(r)

(***************************************************************************)
(* Several asyncio tasks calling list_tools / call_tool on one transport.  *)
(* A task runs without interruption from one await to the next; the other  *)
(* tasks run only while it is suspended.                                   *)
(***************************************************************************)
\* No task has called yet.
KIdle == tasks = [t \in 1..MaxTasks |-> [at |-> "new", op |-> "none", id |-> 0]]

\* The head of the call, were the id of the request taken as request_id + 1
\* and the counter written back only after the await.
Task_begin_writes_late(t, op) ==
    /\ tasks[t].at = "new"
    /\ IF (IF kind = "stdio" THEN process ELSE client) = 0
       THEN /\ tasks' = [tasks EXCEPT ![t] = [at |-> "done", op |-> op, id |-> 0]]
            /\ UNCHANGED sent
       ELSE /\ tasks' = [tasks EXCEPT
                           ![t] = [at |-> "await", op |-> op, id |-> request_id + 1]]
            /\ sent' = Append(sent, request_id + 1)
    /\ UNCHANGED <<kind, process, client, request_id, children, clients,
                   connects, conn, last>>
    /\ UNCHANGED <<svars, cvars, bvars, xvars, mvars>>

\* The head of list_tools / call_tool, up to its first await.  Stdio:
\* request_id += 1, the request is built with it, and _send_request raises
\* when there is no process, else writes the line and awaits drain().
\* SSE / HTTP: the call raises when there is no client, else request_id += 1,
\* the request is built with it, and the POST is awaited.
Task_begin(t, op) ==
    /\ tasks[t].at = "new"
    /\ IF (IF kind = "stdio" THEN process ELSE client) = 0
       THEN /\ request_id' = IF kind = "stdio" THEN request_id + 1 ELSE request_id
            /\ tasks' = [tasks EXCEPT
                           ![t] = [at |-> "done", op |-> op,
                                   id |-> IF kind = "stdio" THEN request_id + 1
                                          ELSE 0]]
            /\ UNCHANGED sent
       ELSE /\ request_id' = request_id + 1
            /\ tasks' = [tasks EXCEPT
                           ![t] = [at |-> "await", op |-> op, id |-> request_id + 1]]
            /\ sent' = Append(sent, request_id + 1)
    /\ UNCHANGED <<kind, process, client, children, clients, connects, conn, last>>
    /\ UNCHANGED <<svars, cvars, bvars, xvars, mvars>>

\* The awaits of the call return (a response, or an exception): the task
\* leaves the call.  Nothing after the first await touches request_id.
Task_resume(t) ==
    /\ tasks[t].at = "await"
    /\ tasks' = [tasks EXCEPT ![t].at = "done"]
    /\ UNCHANGED <<tvars, svars, cvars, bvars, xvars, mvars>>

(***************************************************************************)
(* The client used as "async with client: ...": __aenter__, then the calls *)
(* of the body (the child may die meanwhile), then __aexit__.              *)
(***************************************************************************)
EKS_aenter ==
    /\ ctx = "out"
    /\ \/ \E o \in SpawnOutcomes : Stdio_connect(o)
       \/ \E h \in HealthOutcomes : SSE_connect(h)
       \/ \E h \in HealthOutcomes : HTTP_connect(h)

EKS_body ==
    /\ ctx = "in"
    /\ \/ \E c \in children : Stdio_child_exit(c)
       \/ \E r \in StdioResponses : Stdio_list_tools(r)
       \/ \E r \in StdioResponses : Stdio_call_tool(r)
       \/ \E r \in SSEResponses : SSE_list_tools(r)
       \/ \E r \in SSEResponses : SSE_call_tool(r)
       \/ \E r \in HTTPResponses : HTTP_list_tools(r)
       \/ \E r \in HTTPResponses : HTTP_call_tool(r)

EKS_aexit ==
    /\ ctx = "in"
    /\ (Stdio_disconnect \/ SSE_disconnect \/ HTTP_disconnect)

\* A method called on the client outside the with statement: before it, or
\* after __aexit__ has run.
EKS_outside ==
    /\ ctx = "out"
    /\ \/ \E r \in StdioResponses : Stdio_call_tool(r)
       \/ \E r \in SSEResponses : SSE_call_tool(r)
       \/ \E r \in HTTPResponses : HTTP_call_tool(r)

XIdle == ctx = "direct"

(***************************************************************************)
(* The line loop of SSETransport alone, on any stream.                     *)
(***************************************************************************)
NoScan == [type |-> "pending"]

SInit ==
    /\ stream \in [isList : BOOLEAN, lines : SeqUpTo(SSELines, MaxStream)]
    /\ scan = NoScan

SIdle == stream = [isList |-> FALSE, lines |-> <<>>] /\ scan = NoScan

\* list_tools() starts from tools = [], call_tool() from result = None.
SSE_read_list ==
    /\ scan = NoScan
    /\ stream.isList
    /\ scan' = SSE_scan(stream.lines, 1, Return(<<>>, "none"), TRUE)
    /\ UNCHANGED <<stream, tvars, cvars, bvars, xvars, mvars, kvars>>

SSE_read_call ==
    /\ scan = NoScan
    /\ ~stream.isList
    /\ scan' = SSE_scan(stream.lines, 1, Return(<<>>, "None"), FALSE)
    /\ UNCHANGED <<stream, tvars, cvars, bvars, xvars, mvars, kvars>>

SNext == SSE_read_list \/ SSE_read_call


(***************************************************************************)
(* The chat turn: chat_with_mcp_openai and chat_with_mcp_bedrock.          *)
(***************************************************************************)
max_iterations_plus_one == 5 + 1

max_iterations == 5

LimitMsg == "I've made several tool calls but need to stop here."
\* The fallback text, were there none.
NotSure_none == ""

NotSure == "I'm not sure how to help."
ErrorMsg == "Error: e"

\* The query of the current turn; queries are told apart by their number.
Query == ToString(asked)

\* A tool-call request of a decision.  args is the function.arguments
\* string of an OpenAI tool call: "ok" when json.loads decodes it to an
\* object, "bad" when it does not.  A Bedrock toolUse input is an object.
Requests == [id : {"a", "b"}, args : {"ok", "bad"}]

ToolCallLists ==
    {<<r>> : r \in {q \in Requests : q.id = "a"}}
    \cup {<<r1, r2>> : r1 \in {q \in Requests : q.id = "a"},
                      r2 \in {q \in Requests : q.id = "b"}}

ToolUseLists == {l \in ToolCallLists : \A i \in DOMAIN l : l[i].args = "ok"}

\* What the engine answers.  OpenAI: message.content and message.tool_calls.
\* Bedrock: stopReason, the text blocks (concatenated) and the toolUse blocks.
OpenaiDecisions ==
    {[stop |-> "none", text |-> t, reqs |-> <<>>] : t \in {"", "t1"}}
    \cup {[stop |-> "none", text |-> "", reqs |-> l] : l \in ToolCallLists}

BedrockDecisions ==
    {[stop |-> "end_turn", text |-> t, reqs |-> l] :
        t \in {"", "t1"}, l \in {<<>>, <<[id |-> "a", args |-> "ok"]>>}}
    \cup {[stop |-> "tool_use", text |-> "", reqs |-> l] :
             l \in {<<>>} \cup ToolUseLists}

NoDecision == [stop |-> "none", text |-> "", reqs |-> <<>>]

\* call_mcp_tool(): the value the tool produced, or {"error": str(e)} when
\* client.call_tool raised.
ToolOutcomes == {"value", "raised"}
call_mcp_tool(o) == IF o = "value" THEN "data" ELSE "error"

RequestsTools(reqs) ==
    reqs # <<>> /\ \A i \in DOMAIN reqs : reqs[i].args = "ok"

Msg(role, content) ==
    [role |-> role, content |-> content, tool_calls |-> <<>>, tool_call_id |-> "none"]

Ids(reqs) == [i \in DOMAIN reqs |-> reqs[i].id]

\* Cap that keeps the first entry and the last 21.
Cap_keeps_21(h) ==
    IF Len(h) > 21 THEN <<h[1]>> \o SubSeq(h, Len(h) - 20, Len(h)) ELSE h

\* main(): the history is cut to its first entry and its last 20 once it
\* holds more than 21.
Cap(h) ==
    IF Len(h) > 21 THEN <<h[1]>> \o SubSeq(h, Len(h) - 19, Len(h)) ELSE h

\* main(): the history before the first turn.
NewHistory(p) == IF p = "openai" THEN <<Msg("system", "prompt")>> ELSE <<>>

\* The history main() holds after k turns that each ended with an answer.
RECURSIVE HistoryAfter(_, _)
HistoryAfter(p, k) ==
    IF k = 0 THEN NewHistory(p)
    ELSE Cap(HistoryAfter(p, k - 1)
             \o <<Msg("user", ToString(k)), Msg("assistant", "t1")>>)

\* The chat loop is entered fresh or after 10 answered turns.
Asked == {0, 10}

NoRound == [n |-> 0, reqs |-> <<>>, invoked |-> <<>>, failed |-> {}]

NoScript == <<>>
NoOutcome ==
    [ending |-> "none", answer |-> "none", engineCalls |-> 0, toolCalls |-> 0]

CInit ==
    /\ provider \in {"openai", "bedrock"}
    /\ pc = "idle"
    /\ iteration = 0
    /\ messages = <<>>
    /\ asked \in Asked
    /\ conversation_history = HistoryAfter(provider, asked)
    /\ returned = conversation_history
    /\ decision = NoDecision
    /\ idx = 0
    /\ tool_results = <<>>
    /\ answer = "none"
    /\ ending = "none"
    /\ engineCalls = 0
    /\ allTools = TRUE
    /\ turns = 0
    /\ inflight = 0
    /\ round = NoRound
    /\ results = <<>>
    /\ shown = <<>>
    /\ first = NoOutcome

CIdle == CInit /\ provider = "openai" /\ asked = 0 /\ script = NoScript

\* The turn ends: the function returns text and history to main(), which
\* applies the cap; the locals of the turn are gone.
Finish(how, text, history) ==
    /\ pc' = "idle"
    /\ ending' = how
    /\ answer' = text
    /\ returned' = history
    /\ conversation_history' = Cap(history)
    /\ messages' = <<>>
    /\ decision' = NoDecision
    /\ idx' = 0
    /\ tool_results' = <<>>
    /\ iteration' = 0

Recorded(text) ==
    conversation_history \o <<Msg("user", Query), Msg("assistant", text)>>

\* The assistant entry of a decision that requests tools.
Assistant(d) ==
    [role |-> "assistant", content |-> d.text,
     tool_calls |-> Ids(d.reqs), tool_call_id |-> "none"]

\* The tools round that a decision opens.
Opened(d) ==
    [n |-> iteration + 1, reqs |-> d.reqs, invoked |-> <<>>, failed |-> {}]

\* A turn starts: messages = conversation_history + [user query].
\* The turn, were the round counter started at its ceiling.
Openai_start_at_limit ==
    /\ provider = "openai"
    /\ pc = "idle"
    /\ turns < MaxTurns
    /\ turns' = turns + 1
    /\ asked' = asked + 1
    /\ messages' = conversation_history \o <<Msg("user", Query')>>
    /\ iteration' = max_iterations
    /\ pc' = "loop"
    /\ engineCalls' = 0
    /\ allTools' = TRUE
    /\ answer' = "none"
    /\ ending' = "none"
    /\ round' = NoRound
    /\ results' = <<>>
    /\ shown' = <<>>
    /\ UNCHANGED <<provider, conversation_history, decision, idx, tool_results,
                   returned, inflight, script, first>>
    /\ UNCHANGED <<tvars, svars, bvars, xvars, mvars, kvars>>

Openai_start ==
    /\ provider = "openai"
    /\ pc = "idle"
    /\ turns < MaxTurns
    /\ turns' = turns + 1
    /\ asked' = asked + 1
    /\ messages' = conversation_history \o <<Msg("user", Query')>>
    /\ iteration' = 0
    /\ pc' = "loop"
    /\ engineCalls' = 0
    /\ allTools' = TRUE
    /\ answer' = "none"
    /\ ending' = "none"
    /\ round' = NoRound
    /\ results' = <<>>
    /\ shown' = <<>>
    /\ UNCHANGED <<provider, conversation_history, decision, idx, tool_results,
                   returned, inflight, script, first>>
    /\ UNCHANGED <<tvars, svars, bvars, xvars, mvars, kvars>>

\* The pass, were the assistant entry of a decision that requests tools left
\* out of the message list.
Openai_round_unrecorded(d) ==
    /\ provider = "openai"
    /\ pc = "loop"
    /\ iteration < max_iterations
    /\ engineCalls' = engineCalls + 1
    /\ shown' = messages
    /\ allTools' = (allTools /\ RequestsTools(d.reqs))
    /\ IF d.reqs # <<>>
       THEN /\ iteration' = iteration + 1
            /\ decision' = d
            /\ idx' = 1
            /\ pc' = "tools"
            /\ round' = Opened(d)
            /\ UNCHANGED <<messages, conversation_history, tool_results, answer,
                           ending, returned>>
       ELSE LET final_text == IF d.text = "" THEN NotSure ELSE d.text
            IN /\ Finish("Done", final_text, Recorded(final_text))
               /\ UNCHANGED round
    /\ UNCHANGED <<provider, turns, asked, inflight, results, script, first>>
    /\ UNCHANGED <<tvars, svars, bvars, xvars, mvars, kvars>>

\* One pass through the head of the while loop with the engine's decision d.
Openai_round(d) ==
    /\ provider = "openai"
    /\ pc = "loop"
    /\ iteration < max_iterations
    /\ engineCalls' = engineCalls + 1
    /\ shown' = messages
    /\ allTools' = (allTools /\ RequestsTools(d.reqs))
    /\ IF d.reqs # <<>>
       THEN /\ iteration' = iteration + 1
            /\ messages' = Append(messages, Assistant(d))
            /\ decision' = d
            /\ idx' = 1
            /\ pc' = "tools"
            /\ round' = Opened(d)
            /\ UNCHANGED <<conversation_history, tool_results, answer, ending,
                           returned>>
       ELSE LET final_text == IF d.text = "" THEN NotSure ELSE d.text
            IN /\ Finish("Done", final_text, Recorded(final_text))
               /\ UNCHANGED round
    /\ UNCHANGED <<provider, turns, asked, inflight, results, script, first>>
    /\ UNCHANGED <<tvars, svars, bvars, xvars, mvars, kvars>>

\* The engine call raising out of the turn function.
Openai_engine_raises_uncaught ==
    /\ provider = "openai"
    /\ pc = "loop"
    /\ iteration < max_iterations
    /\ engineCalls' = engineCalls + 1
    /\ shown' = messages
    /\ Finish("Raised", "none", conversation_history)
    /\ allTools' = FALSE
    /\ UNCHANGED <<provider, turns, asked, inflight, round, results, script, first>>
    /\ UNCHANGED <<tvars, svars, bvars, xvars, mvars, kvars>>

\* The except clause, were the query recorded before the engine is called.
Openai_engine_raises_keeps_query ==
    /\ provider = "openai"
    /\ pc = "loop"
    /\ iteration < max_iterations
    /\ engineCalls' = engineCalls + 1
    /\ shown' = messages
    /\ Finish("Error", ErrorMsg, Append(conversation_history, Msg("user", Query)))
    /\ allTools' = FALSE
    /\ UNCHANGED <<provider, turns, asked, inflight, round, results, script, first>>
    /\ UNCHANGED <<tvars, svars, bvars, xvars, mvars, kvars>>

\* The engine call raises: the except clause returns the error text and the
\* history as it was passed in.
Openai_engine_raises ==
    /\ provider = "openai"
    /\ pc = "loop"
    /\ iteration < max_iterations
    /\ engineCalls' = engineCalls + 1
    /\ shown' = messages
    /\ Finish("Error", ErrorMsg, conversation_history)
    /\ allTools' = FALSE
    /\ UNCHANGED <<provider, turns, asked, inflight, round, results, script, first>>
    /\ UNCHANGED <<tvars, svars, bvars, xvars, mvars, kvars>>

\* The for loop started on all the requests at once, without awaiting each.
Openai_invoke_all ==
    /\ provider = "openai"
    /\ pc = "tools"
    /\ inflight' = inflight + (Len(decision.reqs) - idx + 1)
    /\ round' = [round EXCEPT !.invoked = Ids(decision.reqs)]
    /\ pc' = "await"
    /\ UNCHANGED <<iteration, messages, conversation_history, decision,
                   idx, tool_results, answer, ending, returned,
                   engineCalls, allTools>>
    /\ UNCHANGED <<provider, turns, asked, results, shown, script, first>>
    /\ UNCHANGED <<tvars, svars, bvars, xvars, mvars, kvars>>

\* The head of one pass through the for loop over
\* assistant_message.tool_calls, up to the await of call_mcp_tool.
\* json.loads is outside call_mcp_tool: arguments it cannot decode end the
\* turn in the except clause of the function.
Openai_invoke ==
    /\ provider = "openai"
    /\ pc = "tools"
    /\ IF decision.reqs[idx].args = "bad"
       THEN /\ Finish("Error", ErrorMsg, conversation_history)
            /\ round' = [round EXCEPT !.failed = @ \cup {idx}]
            /\ UNCHANGED inflight
       ELSE /\ inflight' = inflight + 1
            /\ round' = [round EXCEPT !.invoked = Append(@, decision.reqs[idx].id)]
            /\ pc' = "await"
            /\ UNCHANGED <<iteration, messages, conversation_history, decision,
                           idx, tool_results, answer, ending, returned>>
    /\ UNCHANGED <<provider, turns, asked, engineCalls, allTools, results,
                   shown, script, first>>
    /\ UNCHANGED <<tvars, svars, bvars, xvars, mvars, kvars>>

\* The pass without its messages.append: the result is dropped.
Openai_result_dropped(o) ==
    /\ provider = "openai"
    /\ pc = "await"
    /\ inflight' = inflight - 1
    /\ results' = Append(results,
          [n |-> round.n, i |-> idx, id |-> decision.reqs[idx].id,
           content |-> call_mcp_tool(o), at |-> Len(messages) + 1])
    /\ round' = [round EXCEPT !.failed = IF o = "raised" THEN @ \cup {idx} ELSE @]
    /\ IF idx = Len(decision.reqs)
       THEN pc' = "loop" /\ idx' = 0 /\ decision' = NoDecision
       ELSE pc' = "tools" /\ idx' = idx + 1 /\ UNCHANGED decision
    /\ UNCHANGED <<iteration, messages, conversation_history, tool_results,
                   answer, ending, returned, engineCalls, allTools>>
    /\ UNCHANGED <<provider, turns, asked, shown, script, first>>
    /\ UNCHANGED <<tvars, svars, bvars, xvars, mvars, kvars>>

\* The pass keying every tool entry to the first request of the decision.
Openai_result_keyed_first(o) ==
    /\ provider = "openai"
    /\ pc = "await"
    /\ inflight' = inflight - 1
    /\ messages' = Append(messages,
          [role |-> "tool", content |-> call_mcp_tool(o),
           tool_calls |-> <<>>, tool_call_id |-> decision.reqs[1].id])
    /\ results' = Append(results,
          [n |-> round.n, i |-> idx, id |-> decision.reqs[1].id,
           content |-> call_mcp_tool(o), at |-> Len(messages) + 1])
    /\ round' = [round EXCEPT !.failed = IF o = "raised" THEN @ \cup {idx} ELSE @]
    /\ IF idx = Len(decision.reqs)
       THEN pc' = "loop" /\ idx' = 0 /\ decision' = NoDecision
       ELSE pc' = "tools" /\ idx' = idx + 1 /\ UNCHANGED decision
    /\ UNCHANGED <<iteration, conversation_history, tool_results,
                   answer, ending, returned, engineCalls, allTools>>
    /\ UNCHANGED <<provider, turns, asked, shown, script, first>>
    /\ UNCHANGED <<tvars, svars, bvars, xvars, mvars, kvars>>

\* The pass, were messages the caller's list itself and not a copy of it:
\* the tool entry lands in the history as well.
Openai_result_into_history(o) ==
    /\ provider = "openai"
    /\ pc = "await"
    /\ inflight' = inflight - 1
    /\ messages' = Append(messages,
          [role |-> "tool", content |-> call_mcp_tool(o),
           tool_calls |-> <<>>, tool_call_id |-> decision.reqs[idx].id])
    /\ conversation_history' = Append(conversation_history,
          [role |-> "tool", content |-> call_mcp_tool(o),
           tool_calls |-> <<>>, tool_call_id |-> decision.reqs[idx].id])
    /\ results' = Append(results,
          [n |-> round.n, i |-> idx, id |-> decision.reqs[idx].id,
           content |-> call_mcp_tool(o), at |-> Len(messages) + 1])
    /\ round' = [round EXCEPT !.failed = IF o = "raised" THEN @ \cup {idx} ELSE @]
    /\ IF idx = Len(decision.reqs)
       THEN pc' = "loop" /\ idx' = 0 /\ decision' = NoDecision
       ELSE pc' = "tools" /\ idx' = idx + 1 /\ UNCHANGED decision
    /\ UNCHANGED <<iteration, tool_results,
                   answer, ending, returned, engineCalls, allTools>>
    /\ UNCHANGED <<provider, turns, asked, shown, script, first>>
    /\ UNCHANGED <<tvars, svars, bvars, xvars, mvars, kvars>>

\* The rest of the pass: call_mcp_tool has returned and its (bounded) result
\* is appended as a tool entry keyed to the request.
Openai_result(o) ==
    /\ provider = "openai"
    /\ pc = "await"
    /\ inflight' = inflight - 1
    /\ messages' = Append(messages,
          [role |-> "tool", content |-> call_mcp_tool(o),
           tool_calls |-> <<>>, tool_call_id |-> decision.reqs[idx].id])
    /\ results' = Append(results,
          [n |-> round.n, i |-> idx, id |-> decision.reqs[idx].id,
           content |-> call_mcp_tool(o), at |-> Len(messages) + 1])
    /\ round' = [round EXCEPT !.failed = IF o = "raised" THEN @ \cup {idx} ELSE @]
    /\ IF idx = Len(decision.reqs)
       THEN pc' = "loop" /\ idx' = 0 /\ decision' = NoDecision
       ELSE pc' = "tools" /\ idx' = idx + 1 /\ UNCHANGED decision
    /\ UNCHANGED <<iteration, conversation_history, tool_results,
                   answer, ending, returned, engineCalls, allTools>>
    /\ UNCHANGED <<provider, turns, asked, shown, script, first>>
    /\ UNCHANGED <<tvars, svars, bvars, xvars, mvars, kvars>>

\* The while condition fails: the canned message is recorded and returned.
Openai_limit ==
    /\ provider = "openai"
    /\ pc = "loop"
    /\ ~(iteration < max_iterations)
    /\ Finish("RoundLimit", LimitMsg, Recorded(LimitMsg))
    /\ UNCHANGED <<provider, turns, asked, engineCalls, allTools, inflight,
                   round, results, shown, script, first>>
    /\ UNCHANGED <<tvars, svars, bvars, xvars, mvars, kvars>>

\* messages = the non-system entries of the history + [user query].
Bedrock_start ==
    /\ provider = "bedrock"
    /\ pc = "idle"
    /\ turns < MaxTurns
    /\ turns' = turns + 1
    /\ asked' = asked + 1
    /\ messages' = SelectSeq(conversation_history, LAMBDA m : m.role # "system")
                      \o <<Msg("user", Query')>>
    /\ iteration' = 0
    /\ pc' = "loop"
    /\ engineCalls' = 0
    /\ allTools' = TRUE
    /\ answer' = "none"
    /\ ending' = "none"
    /\ round' = NoRound
    /\ results' = <<>>
    /\ shown' = <<>>
    /\ UNCHANGED <<provider, conversation_history, decision, idx, tool_results,
                   returned, inflight, script, first>>
    /\ UNCHANGED <<tvars, svars, bvars, xvars, mvars, kvars>>

\* One pass through the head of the while loop.  The output message is
\* appended whatever the stop reason; a tool_use stop without a toolUse
\* block leaves the loop by break, to the code after the loop.
Bedrock_round(d) ==
    /\ provider = "bedrock"
    /\ pc = "loop"
    /\ iteration < max_iterations
    /\ engineCalls' = engineCalls + 1
    /\ shown' = messages
    /\ allTools' = (allTools /\ d.stop = "tool_use" /\ RequestsTools(d.reqs))
    /\ IF d.stop = "tool_use" /\ d.reqs # <<>>
       THEN /\ iteration' = iteration + 1
            /\ messages' = Append(messages, Assistant(d))
            /\ decision' = d
            /\ idx' = 1
            /\ tool_results' = <<>>
            /\ pc' = "tools"
            /\ round' = Opened(d)
            /\ UNCHANGED <<conversation_history, answer, ending, returned>>
       ELSE IF d.stop = "tool_use"
       THEN /\ Finish("RoundLimit", LimitMsg, Recorded(LimitMsg))
            /\ UNCHANGED round
       ELSE LET final_text == IF d.text = "" THEN NotSure ELSE d.text
            IN /\ Finish("Done", final_text, Recorded(final_text))
               /\ UNCHANGED round
    /\ UNCHANGED <<provider, turns, asked, inflight, results, script, first>>
    /\ UNCHANGED <<tvars, svars, bvars, xvars, mvars, kvars>>

Bedrock_engine_raises ==
    /\ provider = "bedrock"
    /\ pc = "loop"
    /\ iteration < max_iterations
    /\ engineCalls' = engineCalls + 1
    /\ shown' = messages
    /\ Finish("Error", ErrorMsg, conversation_history)
    /\ allTools' = FALSE
    /\ UNCHANGED <<provider, turns, asked, inflight, round, results, script, first>>
    /\ UNCHANGED <<tvars, svars, bvars, xvars, mvars, kvars>>

\* The head of one pass through the for loop over tool_uses, up to the
\* await of call_mcp_tool; tool_use['input'] is an object already.
Bedrock_invoke ==
    /\ provider = "bedrock"
    /\ pc = "tools"
    /\ inflight' = inflight + 1
    /\ round' = [round EXCEPT !.invoked = Append(@, decision.reqs[idx].id)]
    /\ pc' = "await"
    /\ UNCHANGED <<iteration, messages, conversation_history, decision,
                   idx, tool_results, answer, ending, returned>>
    /\ UNCHANGED <<provider, turns, asked, engineCalls, allTools, results,
                   shown, script, first>>
    /\ UNCHANGED <<tvars, svars, bvars, xvars, mvars, kvars>>

\* The rest of the pass: the result joins tool_results; after the last
\* pass the collected results are appended as one user message.
Bedrock_result(o) ==
    /\ provider = "bedrock"
    /\ pc = "await"
    /\ inflight' = inflight - 1
    /\ results' = Append(results,
          [n |-> round.n, i |-> idx, id |-> decision.reqs[idx].id,
           content |-> call_mcp_tool(o), at |-> Len(messages) + 1])
    /\ round' = [round EXCEPT !.failed = IF o = "raised" THEN @ \cup {idx} ELSE @]
    /\ LET r == [toolUseId |-> decision.reqs[idx].id, content |-> call_mcp_tool(o)]
           collected == Append(tool_results, r)
       IN IF idx = Len(decision.reqs)
          THEN /\ messages' = Append(messages,
                     [role |-> "user", content |-> collected,
                      tool_calls |-> <<>>, tool_call_id |-> "none"])
               /\ tool_results' = <<>>
               /\ pc' = "loop"
               /\ idx' = 0
               /\ decision' = NoDecision
          ELSE /\ tool_results' = collected
               /\ pc' = "tools"
               /\ idx' = idx + 1
               /\ UNCHANGED <<messages, decision>>
    /\ UNCHANGED <<provider, turns, asked, iteration, conversation_history,
                   answer, ending, returned, engineCalls, allTools, shown,
                   script, first>>
    /\ UNCHANGED <<tvars, svars, bvars, xvars, mvars, kvars>>

Bedrock_limit ==
    /\ provider = "bedrock"
    /\ pc = "loop"
    /\ ~(iteration < max_iterations)
    /\ Finish("RoundLimit", LimitMsg, Recorded(LimitMsg))
    /\ UNCHANGED <<provider, turns, asked, engineCalls, allTools, inflight,
                   round, results, shown, script, first>>
    /\ UNCHANGED <<tvars, svars, bvars, xvars, mvars, kvars>>

CNext ==
    \/ Openai_start
    \/ \E d \in OpenaiDecisions : Openai_round(d)
    \/ Openai_engine_raises
    \/ Openai_invoke
    \/ \E o \in ToolOutcomes : Openai_result(o)
    \/ Openai_limit
    \/ Bedrock_start
    \/ \E d \in BedrockDecisions : Bedrock_round(d)
    \/ Bedrock_engine_raises
    \/ Bedrock_invoke
    \/ \E o \in ToolOutcomes : Bedrock_result(o)
    \/ Bedrock_limit

(***************************************************************************)
(* The two bindings run one after the other on the same decisions: the     *)
(* program started with the OpenAI provider, then started again with the   *)
(* Bedrock provider and given the same script.                             *)
(***************************************************************************)
\* A decision as the two engines render it.  stop is Bedrock's stopReason;
\* an OpenAI message has none.
PairDecisions ==
    {[stop |-> "end_turn", text |-> "t1", reqs |-> <<>>],
     [stop |-> "end_turn", text |-> "", reqs |-> <<>>],
     [stop |-> "tool_use", text |-> "", reqs |-> <<[id |-> "a", args |-> "ok"]>>],
     [stop |-> "tool_use", text |-> "",
      reqs |-> <<[id |-> "a", args |-> "ok"], [id |-> "b", args |-> "ok"]>>],
     [stop |-> "tool_use", text |-> "", reqs |-> <<>>],
     [stop |-> "end_turn", text |-> "t1", reqs |-> <<[id |-> "a", args |-> "ok"]>>]}

Scripts == [1..max_iterations -> PairDecisions]

\* What a finished turn gave: how it ended, the text returned, and the
\* engine calls and tool invocations it made.
Outcome ==
    [ending |-> ending, answer |-> answer, engineCalls |-> engineCalls,
     toolCalls |-> Len(results)]

\* The next decision of the script.
Scripted == script[engineCalls + 1]

\* main() entered again, get_llm_provider() now choosing Bedrock: the
\* history starts empty and the turn of the first run is remembered.
Pair_switch ==
    /\ provider = "openai"
    /\ pc = "idle"
    /\ ending # "none"
    /\ first = NoOutcome
    /\ first' = Outcome
    /\ provider' = "bedrock"
    /\ conversation_history' = NewHistory("bedrock")
    /\ returned' = NewHistory("bedrock")
    /\ asked' = 0
    /\ turns' = 0
    /\ answer' = "none"
    /\ ending' = "none"
    /\ engineCalls' = 0
    /\ allTools' = TRUE
    /\ round' = NoRound
    /\ results' = <<>>
    /\ shown' = <<>>
    /\ UNCHANGED <<pc, iteration, messages, decision, idx, tool_results,
                   inflight, script>>
    /\ UNCHANGED <<tvars, svars, bvars, xvars, mvars, kvars>>

PNext ==
    \/ Openai_start
    \* OpenAI renders the decision as message.content and message.tool_calls,
    \* without a stop reason.
    \/ /\ engineCalls < Len(script)
       /\ Openai_round([stop |-> "none", text |-> Scripted.text,
                        reqs |-> Scripted.reqs])
    \/ Openai_invoke
    \/ Openai_result("value")
    \/ Openai_limit
    \/ Pair_switch
    \/ Bedrock_start
    \* Bedrock renders it as stopReason and output.message.
    \/ engineCalls < Len(script) /\ Bedrock_round(Scripted)
    \/ Bedrock_invoke
    \/ Bedrock_result("value")
    \/ Bedrock_limit

(***************************************************************************)
(* smart_truncate_result.  A string is a sequence of characters; a value   *)
(* is a string, an integer, a list or a dict with string keys.             *)
(***************************************************************************)
Text(cs) == [t |-> "str", s |-> cs, n |-> 0, items |-> <<>>]
Num(k) == [t |-> "int", s |-> <<>>, n |-> k, items |-> <<>>]
Arr(vs) == [t |-> "list", s |-> <<>>, n |-> 0, items |-> vs]
\* items: a sequence of <<key, value>> pairs, in insertion order.
Obj(kvs) == [t |-> "dict", s |-> <<>>, n |-> 0, items |-> kvs]
\* None
Null == [t |-> "null", s |-> <<>>, n |-> 0, items |-> <<>>]

RECURSIVE Digits(_)
Digits(k) ==
    LET d == <<"0", "1", "2", "3", "4", "5", "6", "7", "8", "9">>[(k % 10) + 1]
    IN IF k < 10 THEN <<d>> ELSE Digits(k \div 10) \o <<d>>

\* json.dumps of a str: the quote and the backslash are escaped.
RECURSIVE Escape(_)
Escape(cs) ==
    IF cs = <<>> THEN <<>>
    ELSE IF Len(cs) = 1
    THEN IF cs[1] = "\"" THEN <<"\\", "\"">>
         ELSE IF cs[1] = "\\" THEN <<"\\", "\\">> ELSE cs
    ELSE LET half == Len(cs) \div 2
         IN Escape(SubSeq(cs, 1, half)) \o Escape(SubSeq(cs, half + 1, Len(cs)))

Quoted(cs) == <<"\"">> \o Escape(cs) \o <<"\"">>

\* json.dumps(v, default=str), with the separators ", " and ": ".
RECURSIVE Dumps(_)
RECURSIVE DumpItems(_, _)
DumpItems(vs, isDict) ==
    IF vs = <<>> THEN <<>>
    ELSE IF Len(vs) = 1
    THEN IF isDict
         THEN Quoted(vs[1][1]) \o <<":", " ">> \o Dumps(vs[1][2])
         ELSE Dumps(vs[1])
    ELSE LET half == Len(vs) \div 2
         IN DumpItems(SubSeq(vs, 1, half), isDict) \o <<",", " ">>
            \o DumpItems(SubSeq(vs, half + 1, Len(vs)), isDict)

Dumps(v) ==
    IF v.t = "null" THEN <<"n", "u", "l", "l">>
    ELSE IF v.t = "str" THEN Quoted(v.s)
    ELSE IF v.t = "int" THEN Digits(v.n)
    ELSE IF v.t = "list" THEN <<"[">> \o DumpItems(v.items, FALSE) \o <<"]">>
    ELSE <<"{">> \o DumpItems(v.items, TRUE) \o <<"}">>

\* cs[:k]
Prefix(cs, k) == SubSeq(cs, 1, IF k < Len(cs) THEN k ELSE Len(cs))

\* The string literals of the code, as sequences of characters.
Lit ==
    [
     total_items |-> <<"t", "o", "t", "a", "l", "_", "i", "t", "e", "m",
         "s">>,
     showing |-> <<"s", "h", "o", "w", "i", "n", "g">>,
     note |-> <<"n", "o", "t", "e">>,
     sample_items |-> <<"s", "a", "m", "p", "l", "e", "_", "i", "t", "e",
         "m", "s">>,
     warning |-> <<"w", "a", "r", "n", "i", "n", "g">>,
     partial_data |-> <<"p", "a", "r", "t", "i", "a", "l", "_", "d", "a",
         "t", "a">>,
     Showing_first |-> <<"S", "h", "o", "w", "i", "n", "g", " ", "f", "i",
         "r", "s", "t", " ">>,
     of |-> <<" ", "o", "f", " ">>,
     items_ |-> <<" ", "i", "t", "e", "m", "s", ".", " ", "U", "s", "e",
         " ", "n", "a", "m", "e", "s", "p", "a", "c", "e", "-", "s", "p",
         "e", "c", "i", "f", "i", "c", " ", "q", "u", "e", "r", "i", "e",
         "s", " ", "f", "o", "r", " ", "m", "o", "r", "e", ".">>,
     Result_truncated |-> <<"R", "e", "s", "u", "l", "t", " ", "t", "r",
         "u", "n", "c", "a", "t", "e", "d", " ", "d", "u", "e", " ", "t",
         "o", " ", "s", "i", "z", "e", ".", " ", "C", "o", "n", "s", "i",
         "d", "e", "r", " ", "u", "s", "i", "n", "g", " ", "s", "u", "m",
         "m", "a", "r", "y", " ", "t", "o", "o", "l", "s", " ", "o", "r",
         " ", "n", "a", "m", "e", "s", "p", "a", "c", "e", "-", "s", "p",
         "e", "c", "i", "f", "i", "c", " ", "q", "u", "e", "r", "i", "e",
         "s", ".">>,
     type |-> <<"t", "y", "p", "e">>,
     function |-> <<"f", "u", "n", "c", "t", "i", "o", "n">>,
     name |-> <<"n", "a", "m", "e">>,
     description |-> <<"d", "e", "s", "c", "r", "i", "p", "t", "i", "o",
         "n">>,
     parameters |-> <<"p", "a", "r", "a", "m", "e", "t", "e", "r", "s">>,
     properties |-> <<"p", "r", "o", "p", "e", "r", "t", "i", "e", "s">>,
     required |-> <<"r", "e", "q", "u", "i", "r", "e", "d">>,
     toolSpec |-> <<"t", "o", "o", "l", "S", "p", "e", "c">>,
     inputSchema |-> <<"i", "n", "p", "u", "t", "S", "c", "h", "e", "m",
         "a">>,
     json |-> <<"j", "s", "o", "n">>,
     object |-> <<"o", "b", "j", "e", "c", "t">>,
     string |-> <<"s", "t", "r", "i", "n", "g">>,
     Execute_ |-> <<"E", "x", "e", "c", "u", "t", "e", " ">>
    ]

sample_limit == 50

\* The summary built for a list, were every element put in the sample.
Summary_samples_all(v) ==
    LET total_count == Len(v.items)
        sample_size == total_count
    IN Obj(<<<<Lit.total_items, Num(total_count)>>,
              <<Lit.showing, Num(sample_size)>>,
              <<Lit.note, Text(Lit.Showing_first \o Digits(sample_size) \o Lit.of
                              \o Digits(total_count) \o Lit.items_)>>,
              <<Lit.sample_items, Arr(Prefix(v.items, sample_size))>>>>)

\* The summary built for a list.
Summary(v) ==
    LET total_count == Len(v.items)
        sample_size == IF sample_limit < total_count THEN sample_limit
                       ELSE total_count
    IN Obj(<<<<Lit.total_items, Num(total_count)>>,
              <<Lit.showing, Num(sample_size)>>,
              <<Lit.note, Text(Lit.Showing_first \o Digits(sample_size) \o Lit.of
                              \o Digits(total_count) \o Lit.items_)>>,
              <<Lit.sample_items, Arr(Prefix(v.items, sample_size))>>>>)

\* The wrapper built for any other value around the cut serialization.
Wrapper(truncated) ==
    Obj(<<<<Lit.warning, Text(Lit.Result_truncated)>>, <<Lit.partial_data, Text(truncated)>>>>)

\* smart_truncate_result, were the summary of a list returned whole.
smart_truncate_result_summary_uncut(v, budget) ==
    LET result_json == Dumps(v) IN
    IF Len(result_json) <= budget THEN result_json
    ELSE IF v.t = "list" THEN Dumps(Summary(v))
    ELSE Dumps(Wrapper(Prefix(result_json, budget)))

\* smart_truncate_result, were a serialization of exactly max_chars
\* characters treated as over the budget.
smart_truncate_result_strict(v, budget) ==
    LET result_json == Dumps(v) IN
    IF Len(result_json) < budget THEN result_json
    ELSE IF v.t = "list" THEN Prefix(Dumps(Summary(v)), budget)
    ELSE Dumps(Wrapper(Prefix(result_json, budget)))

smart_truncate_result(v, budget) ==
    LET result_json == Dumps(v) IN
    IF Len(result_json) <= budget THEN result_json
    ELSE IF v.t = "list" THEN Prefix(Dumps(Summary(v)), budget)
    ELSE Dumps(Wrapper(Prefix(result_json, budget)))

\* The values given: strings, integers, lists and dicts of them.
Scalars ==
    {Text(cs) : cs \in SeqUpTo({"a", "\"", "\\"}, MaxText)}
    \cup {Num(k) : k \in {0, 7, 1234567}}
Few == {Text(<<>>), Text(<<"a", "\"">>), Num(7)}
Lists ==
    {Arr(vs) : vs \in SeqUpTo(Few, 2)}
    \cup {Arr([i \in 1..k |-> Num(i)]) : k \in {50, 51, 100}}
Dicts ==
    {Obj(<<>>)}
    \cup {Obj(<<<<k, v>>>>) : k \in {<<"a">>, <<"e", "r", "r", "o", "r">>},
                             v \in Few \cup {Arr(<<>>)}}
Values == Scalars \cup Lists \cup Dicts

Pending == <<"pending">>

\* The budgets given: the small ones, and some between the length of the
\* summary of a long list and the length of the list itself.
Budgets == (1..MaxChars) \cup {150, 195, 330, 392}

BInit ==
    /\ result \in Values
    /\ max_chars \in Budgets
    /\ bounded = Pending

BIdle == result = Num(0) /\ max_chars = 1 /\ bounded = Pending

\* smart_truncate_result(result, max_chars) is called on a value whose
\* serialization is within the budget ...
Bound_small ==
    /\ bounded = Pending
    /\ Len(Dumps(result)) <= max_chars
    /\ bounded' = smart_truncate_result(result, max_chars)
    /\ UNCHANGED <<result, max_chars, tvars, svars, cvars, xvars, mvars, kvars>>

\* ... and on one whose serialization is over it.
Bound_large ==
    /\ bounded = Pending
    /\ Len(Dumps(result)) > max_chars
    /\ bounded' = smart_truncate_result(result, max_chars)
    /\ UNCHANGED <<result, max_chars, tvars, svars, cvars, xvars, mvars, kvars>>

BNext == Bound_small \/ Bound_large

(***************************************************************************)
(* The tool-schema mapping: mcp_tool_to_openai_format and                  *)
(* mcp_tool_to_claude_format.  A descriptor is an object with attributes;  *)
(* a schema is a dict.                                                     *)
(***************************************************************************)
\* bool(v): None, "", 0, [] and {} are false.
Truthy(v) ==
    ~ \/ v.t = "null"
      \/ v.t = "str" /\ v.s = <<>>
      \/ v.t = "int" /\ v.n = 0
      \/ v.t \in {"list", "dict"} /\ v.items = <<>>

\* What reading a key a dict does not hold gives (KeyError).
Missing == [t |-> "missing", s |-> <<>>, n |-> 0, items |-> <<>>]

\* d[key]
Get(d, key) ==
    IF d.t = "dict" /\ \E i \in DOMAIN d.items : d.items[i][1] = key
    THEN LET i == CHOOSE i \in DOMAIN d.items : d.items[i][1] = key
         IN d.items[i][2]
    ELSE Missing

\* A descriptor: the attributes the object has, and their values (None for
\* an attribute it has not).
Tool(attrs, name, description, inputSchema) ==
    [attrs |-> attrs, name |-> name, description |-> description,
     inputSchema |-> inputSchema]

\* {"type": "object", "properties": {}, "required": []}
EmptyObjectSchema ==
    Obj(<<<<Lit.type, Text(Lit.object)>>,
          <<Lit.properties, Obj(<<>>)>>,
          <<Lit.required, Arr(<<>>)>>>>)

\* The value a conversion returns, or the exception it raises.
Converted(schema) == [type |-> "return", exc |-> "none", schema |-> schema]
ConvertFails(exc) == [type |-> "raise", exc |-> exc, schema |-> Null]

\* mcp_tool_to_openai_format without the defaults.
mcp_tool_to_openai_format_no_defaults(mcp_tool) ==
    IF ~ ({"name", "description", "inputSchema"} \subseteq mcp_tool.attrs)
    THEN ConvertFails("AttributeError")
    ELSE Converted(
        Obj(<<<<Lit.type, Text(Lit.function)>>,
              <<Lit.function,
                Obj(<<<<Lit.name, mcp_tool.name>>,
                      <<Lit.description, mcp_tool.description>>,
                      <<Lit.parameters, mcp_tool.inputSchema>>>>)>>>>))

mcp_tool_to_openai_format(mcp_tool) ==
    IF ~ ({"name", "description"} \subseteq mcp_tool.attrs)
    THEN ConvertFails("AttributeError")
    ELSE Converted(
        Obj(<<<<Lit.type, Text(Lit.function)>>,
              <<Lit.function,
                Obj(<<<<Lit.name, mcp_tool.name>>,
                      <<Lit.description,
                        IF Truthy(mcp_tool.description) THEN mcp_tool.description
                        ELSE Text(Lit.Execute_ \o mcp_tool.name.s)>>,
                      <<Lit.parameters,
                        IF "inputSchema" \in mcp_tool.attrs
                           /\ Truthy(mcp_tool.inputSchema)
                        THEN mcp_tool.inputSchema
                        ELSE EmptyObjectSchema>>>>)>>>>))

\* mcp_tool_to_claude_format, were the schema put under "inputSchema" itself.
mcp_tool_to_claude_format_flat(mcp_tool) ==
    IF ~ ({"name", "description"} \subseteq mcp_tool.attrs)
    THEN ConvertFails("AttributeError")
    ELSE Converted(
        Obj(<<<<Lit.toolSpec,
                Obj(<<<<Lit.name, mcp_tool.name>>,
                      <<Lit.description,
                        IF Truthy(mcp_tool.description) THEN mcp_tool.description
                        ELSE Text(Lit.Execute_ \o mcp_tool.name.s)>>,
                      <<Lit.inputSchema,
                        IF "inputSchema" \in mcp_tool.attrs
                           /\ Truthy(mcp_tool.inputSchema)
                        THEN mcp_tool.inputSchema
                        ELSE EmptyObjectSchema>>>>)>>>>))

mcp_tool_to_claude_format(mcp_tool) ==
    IF ~ ({"name", "description"} \subseteq mcp_tool.attrs)
    THEN ConvertFails("AttributeError")
    ELSE Converted(
        Obj(<<<<Lit.toolSpec,
                Obj(<<<<Lit.name, mcp_tool.name>>,
                      <<Lit.description,
                        IF Truthy(mcp_tool.description) THEN mcp_tool.description
                        ELSE Text(Lit.Execute_ \o mcp_tool.name.s)>>,
                      <<Lit.inputSchema,
                        Obj(<<<<Lit.json,
                                IF "inputSchema" \in mcp_tool.attrs
                                   /\ Truthy(mcp_tool.inputSchema)
                                THEN mcp_tool.inputSchema
                                ELSE EmptyObjectSchema>>>>)>>>>)>>>>))

\* The descriptors list_tools() of the FastMCP client brings: objects with a
\* name and a description (None when the tool has none), and an input
\* schema that may be missing, None or an empty dict.
OneArgSchema ==
    Obj(<<<<Lit.type, Text(Lit.object)>>,
          <<Lit.properties,
            Obj(<<<<(<<"n">>), Obj(<<<<Lit.type, Text(Lit.string)>>>>)>>>>)>>,
          <<Lit.required, Arr(<<Text(<<"n">>)>>)>>>>)
Descriptors ==
    LET names == {Text(<<"a">>), Text(<<"b", "c">>)}
        descriptions ==
            {Null, Text(<<>>), Text(<<"d">>), Text(Lit.Execute_ \o <<"a">>)}
        schemas == {Null, Obj(<<>>), EmptyObjectSchema, OneArgSchema}
    IN {Tool({"name", "description", "inputSchema"}, n, d, i) :
           n \in names, d \in descriptions, i \in schemas}
       \cup {Tool({"name", "description"}, n, d, Null) :
                n \in names, d \in descriptions}

(***************************************************************************)
(* main() of chat_with_mcp.py, from its start to the chat loop.            *)
(***************************************************************************)
\* os.environ: a variable is not set (os.getenv gives None), set to the
\* empty string, or set to a key.
Environs ==
    [AWS_BEDROCK_API_KEY : {Null, Text(<<>>), Text(<<"b">>)},
     OPENAI_API_KEY : {Null, Text(<<>>), Text(<<"o">>)}]

Provider(name, key) == [provider |-> name, api_key |-> key]

NoProvider == Provider("None", Null)

\* get_llm_provider, were the OpenAI key looked at first.
get_llm_provider_openai_first ==
    LET bedrock_key == environ["AWS_BEDROCK_API_KEY"]
        openai_key == environ["OPENAI_API_KEY"]
    IN IF Truthy(openai_key) THEN Provider("openai", openai_key)
       ELSE IF Truthy(bedrock_key) THEN Provider("bedrock", bedrock_key)
       ELSE NoProvider

get_llm_provider ==
    LET bedrock_key == environ["AWS_BEDROCK_API_KEY"]
        openai_key == environ["OPENAI_API_KEY"]
    IN IF Truthy(bedrock_key) THEN Provider("bedrock", bedrock_key)
       ELSE IF Truthy(openai_key) THEN Provider("openai", openai_key)
       ELSE NoProvider

MInit ==
    /\ environ \in Environs
    /\ mpc = "start"
    /\ detected = Provider("unset", Null)
    /\ status = "running"
    /\ server = "untouched"
    /\ mcp_tools = <<>>
    /\ llm_tools = <<>>

MIdle == MInit /\ environ = [AWS_BEDROCK_API_KEY |-> Null, OPENAI_API_KEY |-> Null]

\* main() returns: the process exits with that status.
Exit(code, srv) ==
    /\ mpc' = "exited"
    /\ status' = code
    /\ server' = srv

\* No provider: the message is printed and main() returns 1.
Main_no_provider ==
    /\ mpc = "start"
    /\ get_llm_provider = NoProvider
    /\ detected' = get_llm_provider
    /\ Exit(1, server)
    /\ UNCHANGED <<environ, mcp_tools, llm_tools>>
    /\ UNCHANGED <<tvars, svars, cvars, bvars, xvars, kvars>>

\* A provider: its client is built, or building it raises and main()
\* returns 1.
Main_llm_client(o) ==
    /\ mpc = "start"
    /\ get_llm_provider # NoProvider
    /\ detected' = get_llm_provider
    /\ IF o = "ok"
       THEN mpc' = "connect" /\ UNCHANGED <<status, server>>
       ELSE Exit(1, server)
    /\ UNCHANGED <<environ, mcp_tools, llm_tools>>
    /\ UNCHANGED <<tvars, svars, cvars, bvars, xvars, kvars>>

\* async with Client("./mcp_server.py"): entering it raises or not.
Main_connect(o) ==
    /\ mpc = "connect"
    /\ IF o = "ok"
       THEN mpc' = "list" /\ server' = "connected" /\ UNCHANGED status
       ELSE Exit(1, "failed")
    /\ UNCHANGED <<environ, detected, mcp_tools, llm_tools>>
    /\ UNCHANGED <<tvars, svars, cvars, bvars, xvars, kvars>>

\* mcp_client.list_tools(): a list of descriptors, or it raises.
Main_list_tools(o, ts) ==
    /\ mpc = "list"
    /\ IF o = "ok"
       THEN mpc' = "convert" /\ mcp_tools' = ts /\ UNCHANGED <<status, server>>
       ELSE Exit(1, "closed") /\ UNCHANGED mcp_tools
    /\ UNCHANGED <<environ, detected, llm_tools>>
    /\ UNCHANGED <<tvars, svars, cvars, bvars, xvars, kvars>>

\* The list comprehension over mcp_tools, with the function of the provider.
Main_convert ==
    /\ mpc = "convert"
    /\ LET conv == [i \in DOMAIN mcp_tools |->
                       IF detected.provider = "bedrock"
                       THEN mcp_tool_to_claude_format(mcp_tools[i])
                       ELSE mcp_tool_to_openai_format(mcp_tools[i])]
       IN IF \E i \in DOMAIN conv : conv[i].type = "raise"
          THEN Exit(1, "closed") /\ UNCHANGED llm_tools
          ELSE /\ llm_tools' = [i \in DOMAIN conv |-> conv[i].schema]
               /\ mpc' = "chat"
               /\ UNCHANGED <<status, server>>
    /\ UNCHANGED <<environ, detected, mcp_tools>>
    /\ UNCHANGED <<tvars, svars, cvars, bvars, xvars, kvars>>

\* The chat loop is left ("quit", end of input): main() returns 0.
Main_quit ==
    /\ mpc = "chat"
    /\ Exit(0, "closed")
    /\ UNCHANGED <<environ, detected, mcp_tools, llm_tools>>
    /\ UNCHANGED <<tvars, svars, cvars, bvars, xvars, kvars>>

MNext ==
    \/ Main_no_provider
    \/ \E o \in {"ok", "raises"} : Main_llm_client(o)
    \/ \E o \in {"ok", "raises"} : Main_connect(o)
    \/ \E o \in {"ok", "raises"}, ts \in SeqUpTo(Descriptors, 1) :
          Main_list_tools(o, ts)
    \/ Main_convert
    \/ Main_quit

(***************************************************************************)
(* Specifications.                                                         *)
(***************************************************************************)
TIdle == TInit /\ kind = "stdio"

InitTransport == TInit /\ SIdle /\ CIdle /\ BIdle /\ XIdle /\ MIdle /\ KIdle

SpecTransport == InitTransport /\ [][TNext]_vars

InitSSE == TIdle /\ SInit /\ CIdle /\ BIdle /\ XIdle /\ MIdle /\ KIdle

SpecSSE == InitSSE /\ [][SNext]_vars

InitChat == TIdle /\ SIdle /\ CInit /\ script = NoScript /\ BIdle /\ XIdle /\ MIdle /\ KIdle

SpecChat == InitChat /\ [][CNext]_vars

\* The first turn after the chat loop is entered, from its start to its end.
FirstTurn ==
    \/ turns = 0 /\ Openai_start
    \/ \E d \in OpenaiDecisions : Openai_round(d)
    \/ Openai_engine_raises
    \/ Openai_invoke
    \/ \E o \in ToolOutcomes : Openai_result(o)
    \/ Openai_limit
    \/ turns = 0 /\ Bedrock_start
    \/ \E d \in BedrockDecisions : Bedrock_round(d)
    \/ Bedrock_engine_raises
    \/ Bedrock_invoke
    \/ \E o \in ToolOutcomes : Bedrock_result(o)
    \/ Bedrock_limit

\* A turn that was started goes on: the engine call and the tool invocation
\* awaited return (or raise), and the code between them runs.
SpecChatLive ==
    InitChat /\ [][FirstTurn]_vars /\ WF_vars(pc # "idle" /\ CNext)

\* main(): the user enters 'clear' at the prompt, between two turns; the
\* history is rebound to conversation_history[:1].
Main_clear ==
    /\ pc = "idle"
    /\ conversation_history' = IF conversation_history = <<>> THEN <<>>
                               ELSE <<conversation_history[1]>>
    /\ UNCHANGED <<provider, pc, iteration, messages, decision, idx,
                   tool_results, answer, ending, engineCalls, allTools, turns,
                   asked, returned, inflight, round, results, shown, script,
                   first>>
    /\ UNCHANGED <<tvars, svars, bvars, xvars, mvars, kvars>>

\* The chat loop of main(): a turn, with 'clear' entered before or after it.
SpecChatClear == InitChat /\ [][FirstTurn \/ Main_clear]_vars

InitPair == TIdle /\ SIdle /\ CInit /\ provider = "openai" /\ asked = 0
            /\ script \in Scripts /\ BIdle /\ XIdle /\ MIdle /\ KIdle

InitBounding == TIdle /\ SIdle /\ CIdle /\ BInit /\ XIdle /\ MIdle /\ KIdle

SpecBounding == InitBounding /\ [][BNext]_vars

SpecPair == InitPair /\ [][PNext]_vars

(***************************************************************************)
(* The simple chat (chat.py): main() keeps the history itself and calls    *)
(* chat_with_openai once per turn.                                         *)
(***************************************************************************)
\* main() before the first prompt: conversation_history = [].
InitSimple ==
    /\ TIdle /\ SIdle /\ BIdle /\ XIdle /\ MIdle /\ KIdle
    /\ provider = "openai"
    /\ pc = "idle"
    /\ iteration = 0
    /\ messages = <<>>
    /\ asked = 0
    /\ conversation_history = <<>>
    /\ returned = <<>>
    /\ decision = NoDecision
    /\ idx = 0
    /\ tool_results = <<>>
    /\ answer = "none"
    /\ ending = "none"
    /\ engineCalls = 0
    /\ allTools = TRUE
    /\ turns = 0
    /\ inflight = 0
    /\ round = NoRound
    /\ results = <<>>
    /\ shown = <<>>
    /\ script = NoScript
    /\ first = NoOutcome

\* The turn, were an error string of chat_with_openai not recorded.
Simple_turn_skips_failed(response) ==
    /\ turns < MaxExchanges
    /\ turns' = turns + 1
    /\ asked' = asked + 1
    /\ answer' = response
    /\ ending' = IF response = "t1" THEN "Done" ELSE "Error"
    /\ LET appended == IF response # "t1" THEN conversation_history
                       ELSE conversation_history
                               \o <<Msg("user", ToString(asked + 1)),
                                    Msg("assistant", response)>>
       IN /\ returned' = appended
          /\ conversation_history' =
                IF Len(appended) > 20
                THEN SubSeq(appended, Len(appended) - 19, Len(appended))
                ELSE appended
    /\ UNCHANGED <<provider, pc, iteration, messages, decision, idx,
                   tool_results, engineCalls, allTools, inflight, round,
                   results, shown, script, first>>
    /\ UNCHANGED <<tvars, svars, bvars, xvars, mvars, kvars>>

\* One pass of the chat loop on a query: chat_with_openai returns the text
\* of the engine or, from its except clause, an error string; main()
\* appends the user entry and the assistant entry and keeps the last 20.
Simple_turn(response) ==
    /\ turns < MaxExchanges
    /\ turns' = turns + 1
    /\ asked' = asked + 1
    /\ answer' = response
    /\ ending' = IF response = "t1" THEN "Done" ELSE "Error"
    /\ LET appended == conversation_history
                          \o <<Msg("user", ToString(asked + 1)),
                               Msg("assistant", response)>>
       IN /\ returned' = appended
          /\ conversation_history' =
                IF Len(appended) > 20
                THEN SubSeq(appended, Len(appended) - 19, Len(appended))
                ELSE appended
    /\ UNCHANGED <<provider, pc, iteration, messages, decision, idx,
                   tool_results, engineCalls, allTools, inflight, round,
                   results, shown, script, first>>
    /\ UNCHANGED <<tvars, svars, bvars, xvars, mvars, kvars>>

\* The 'clear' command: conversation_history = [].
Simple_clear ==
    /\ conversation_history # <<>>
    /\ conversation_history' = <<>>
    /\ UNCHANGED <<provider, pc, iteration, messages, decision, idx,
                   tool_results, answer, ending, engineCalls, allTools, turns,
                   asked, returned, inflight, round, results, shown, script,
                   first>>
    /\ UNCHANGED <<tvars, svars, bvars, xvars, mvars, kvars>>

SpecSimple ==
    InitSimple
    /\ [][(\E response \in {"t1", "Error calling OpenAI: e"} : Simple_turn(response))
          \/ Simple_clear]_vars

\* One transport, connected and disconnected at any time, and the tasks
\* calling it.
SpecTasks ==
    InitTransport
    /\ [][\/ \E o \in SpawnOutcomes : Stdio_connect(o)
          \/ Stdio_disconnect
          \/ \E h \in HealthOutcomes : SSE_connect(h)
          \/ SSE_disconnect
          \/ \E h \in HealthOutcomes : HTTP_connect(h)
          \/ HTTP_disconnect
          \/ \E t \in 1..MaxTasks, op \in {"list_tools", "call_tool"} : Task_begin(t, op)
          \/ \E t \in 1..MaxTasks : Task_resume(t)]_vars

InitClient == TInit /\ SIdle /\ CIdle /\ BIdle /\ ctx = "out" /\ MIdle /\ KIdle

SpecClient ==
    InitClient /\ [][EKS_aenter \/ EKS_body \/ EKS_aexit \/ EKS_outside]_vars

InitMain == TIdle /\ SIdle /\ CIdle /\ BIdle /\ XIdle /\ MInit /\ KIdle

SpecMain == InitMain /\ [][MNext]_vars


(***************************************************************************)
(* Vocabulary of the properties.                                           *)
(***************************************************************************)
CallOps == {"list_tools", "call_tool"}

Handle == IF kind = "stdio" THEN process ELSE client

\* The latest operation is a call that failed with the not-connected error
\* and handed nothing to the channel.
Rejected ==
    /\ last.type = "raise"
    /\ last.exc = "NotConnected"
    /\ Len(sent) = last.preSent

\* The latest operation is a call whose request went out and brought back a
\* decodable JSON object (stdio: a line of JSON; http: a 2xx JSON body).
GotEnvelope ==
    /\ last.op \in CallOps
    /\ last.preHandle # 0
    /\ \/ kind = "stdio" /\ last.resp.line = "json"
       \/ /\ kind = "http"
          /\ last.resp.net = "ok"
          /\ last.resp.body = "json"
          /\ last.resp.status >= 200 /\ last.resp.status < 300

\* The latest operation is an SSE call whose stream arrived and holds only
\* decodable lines.
GotStream ==
    /\ last.op \in CallOps
    /\ last.preHandle # 0
    /\ kind = "sse"
    /\ last.resp.net = "ok"
    /\ \A i \in DOMAIN last.resp.lines : last.resp.lines[i].json # "garbage"

\* Positions of the events of a stream that carry a result / only an error.
ResultAt(lines) == {i \in DOMAIN lines : "result" \in lines[i].env.keys}
ErrorAt(lines) == {i \in DOMAIN lines : lines[i].env.keys = {"error"}}
First(S) == CHOOSE i \in S : \A j \in S : i <= j
Latest(S) == CHOOSE i \in S : \A j \in S : i >= j

DisconnectStep == Stdio_disconnect \/ SSE_disconnect \/ HTTP_disconnect

C2_CallBeforeConnectRejected ==
    (last.op = "call_tool" /\ last.preConnects = 0) => Rejected

C2_Witness ==
    /\ last.op = "call_tool"
    /\ last.preConnects = 0
    /\ last.preReq > 0

(***************************************************************************)
(* C3: once a disconnect has completed, a following list_tools or          *)
(* call_tool fails with the not-connected error (until a later connect).   *)
(***************************************************************************)
C3_CallAfterDisconnectRejected ==
    (last.op \in CallOps /\ last.preConn = "disconnected") => Rejected

C3_Witness ==
    /\ last.op \in CallOps
    /\ last.preConn = "disconnected"
    /\ last.preConnects > 0
    /\ Len(sent) > 0

(***************************************************************************)
(* C4: on the SSE and HTTP transports, after a connect that returned false *)
(* because /health answered a non-200 status, a following list_tools or    *)
(* call_tool fails with the not-connected error and sends no request.      *)
(***************************************************************************)
C4_CallAfterFailedConnectRejected ==
    (kind \in {"sse", "http"} /\ last.op \in CallOps /\ last.preConn = "non200")
        => Rejected

(***************************************************************************)
(* C5: disconnect is idempotent: on a transport whose handle is unset      *)
(* (never connected or already disconnected) it changes no field of the    *)
(* transport and terminates or closes nothing, and every disconnect that   *)
(* returns leaves the handle unset, so a second one is such a no-op.       *)
(***************************************************************************)
C5_DisconnectIdempotent ==
    [][DisconnectStep =>
         /\ Handle = 0 =>
               /\ UNCHANGED <<process, client, request_id, children, clients, sent>>
               /\ ~last'.acted
               /\ last'.type = "return"
         /\ last'.type = "return" => Handle' = 0]_vars

C5_Witness ==
    /\ last.op = "disconnect"
    /\ last.preConn = "disconnected"
    /\ last.preHandle = 0
    /\ last.preConnects > 0
    /\ request_id > 0

(***************************************************************************)
(* C6: the first request sent carries id 1, every later one the previous   *)
(* sent id plus 1, and no id is attached to two requests.                  *)
(***************************************************************************)
C6_SentIdsConsecutiveFromOne == \A i \in DOMAIN sent : sent[i] = i

(***************************************************************************)
(* C7: connect never raises; it returns true exactly when the channel was  *)
(* established (child spawned; /health answered 200) and false on a spawn  *)
(* failure, a non-200 status or a network error.                           *)
(***************************************************************************)
C7_ConnectReturnsBoolean ==
    last.op = "connect" =>
        /\ last.type = "return"
        /\ last.ret = (last.resp.tried \in {"spawned", "200"})

C7_Witness ==
    /\ last.op = "connect"
    /\ last.resp.tried \in {"204", "neterr", "spawnfail"}
    /\ last.preConn = "ok"

(***************************************************************************)
(* C8: a response with a result field makes list_tools return the tools    *)
(* array of the result and call_tool return the result payload as a value, *)
(* also when the payload is an {error: ...} object; a response with an     *)
(* error field and no result makes the call fail with an error that        *)
(* carries the error payload.  For an SSE stream: a stream with result     *)
(* events and no error event, and a stream with error events and no        *)
(* result event.                                                           *)
(***************************************************************************)
C8_ResponseDiscipline ==
    /\ GotEnvelope =>
          LET e == last.resp.env IN
          /\ ("result" \in e.keys /\ last.op = "call_tool") =>
                last.type = "return" /\ last.payload = e.result
          /\ ("result" \in e.keys /\ last.op = "list_tools" /\ IsObject(e.result)) =>
                last.type = "return" /\ last.tools = ToolsOf(e.result)
          /\ e.keys = {"error"} =>
                last.type = "raise" /\ last.exc = "RemoteError" /\ last.errp = e.error
    /\ GotStream =>
          LET ls == last.resp.lines
              R == ResultAt(ls)
              E == ErrorAt(ls)
          IN
          /\ (R # {} /\ E = {} /\ last.op = "call_tool") =>
                last.type = "return" /\ last.payload = ls[Latest(R)].env.result
          /\ (R # {} /\ E = {} /\ last.op = "list_tools") =>
                last.type = "return" /\ last.tools = ToolsOf(ls[Latest(R)].env.result)
          /\ (E # {} /\ R = {}) =>
                /\ last.type = "raise"
                /\ last.exc = "RemoteError"
                /\ last.errp = ls[First(E)].env.error

C8_Witness ==
    /\ GotEnvelope
    /\ last.op = "call_tool"
    /\ last.resp.env = Res("marker")
    /\ last.type = "return"

(***************************************************************************)
(* C9: a response (or SSE stream) that carries neither a result nor an     *)
(* error object makes list_tools and call_tool fail with a protocol error  *)
(* rather than return a normal value.                                      *)
(***************************************************************************)
C9_MalformedEnvelopeFails ==
    /\ (GotEnvelope /\ last.resp.env.keys = {}) => last.type = "raise"
    /\ (GotStream /\ ResultAt(last.resp.lines) = {} /\ ErrorAt(last.resp.lines) = {})
          => last.type = "raise"

(***************************************************************************)
(* C10, as claimed: the SSE line loop reads the stream to its end and the  *)
(* outcome is that of the last event that carries a result or an error.    *)
(***************************************************************************)
Events == \A i \in DOMAIN stream.lines : stream.lines[i].json # "garbage"

TurnOver == pc = "idle" /\ ending # "none"

\* A turn ends in this step.
TurnEnds == pc # "idle" /\ pc' = "idle"

\* A tools round was opened in the turn and the loop is not inside it.
RoundOver == round.n > 0 /\ pc \in {"loop", "idle"}

\* The results appended in round n, in the order of their appending.
ResultsOf(n) == SelectSeq(results, LAMBDA r : r.n = n)

IdsOf(rs) == [i \in DOMAIN rs |-> rs[i].id]

\* The arguments of every request decode (OpenAI: json.loads succeeds).
Decodable(reqs) == \A i \in DOMAIN reqs : reqs[i].args = "ok"

\* The message list holds the tool result r at the place it was appended.
InList(list, r) ==
    /\ r.at \in DOMAIN list
    /\ IF provider = "openai"
       THEN /\ list[r.at].role = "tool"
            /\ list[r.at].tool_call_id = r.id
            /\ list[r.at].content = r.content
       ELSE /\ list[r.at].role = "user"
            /\ list[r.at].tool_calls = <<>>
            /\ Len(list[r.at].content) >= r.i
            /\ list[r.at].content[r.i] = [toolUseId |-> r.id, content |-> r.content]

\* The text a decision without requests gives the turn.
TextOf(d) == IF d.text = "" THEN NotSure ELSE d.text

(***************************************************************************)
(* C11: after every completed turn the history main() holds has at most 21 *)
(* entries, and when the history started with a system entry (OpenAI) that *)
(* entry is still its first element.                                       *)
(***************************************************************************)
C11_HistoryCapped ==
    pc = "idle" =>
        /\ Len(conversation_history) <= 21
        /\ NewHistory(provider) # <<>> =>
              /\ conversation_history # <<>>
              /\ conversation_history[1] = NewHistory(provider)[1]

C11_Witness ==
    /\ TurnOver
    /\ provider = "openai"
    /\ Len(returned) = 23
    /\ Len(conversation_history) = 21

(***************************************************************************)
(* C12: whenever the cap is applied, the entries kept after the optional   *)
(* system entry are exactly the most recent entries of the history the     *)
(* turn returned, in their order, so that every older non-system entry is  *)
(* removed; with a system entry (OpenAI) and without one (Bedrock).        *)
(***************************************************************************)
C12_PruningRemovesOldest ==
    (TurnOver /\ Len(returned) > 21) =>
        LET h == returned
            k == conversation_history
            s == IF h[1].role = "system" THEN 1 ELSE 0
        IN /\ Len(k) <= Len(h)
           /\ s = 1 => k[1] = h[1]
           /\ SubSeq(k, s + 1, Len(k))
                 = SubSeq(h, Len(h) - (Len(k) - s) + 1, Len(h))

(***************************************************************************)
(* C13: a decision that carries no tool-call request ends the turn in Done *)
(* with the decision's text (the fixed fallback when it is empty) as the   *)
(* returned answer; and every turn that ends in Done or RoundLimitReached  *)
(* returns the history it was given plus exactly two entries, the user     *)
(* query and one assistant entry holding the returned text.                *)
(***************************************************************************)
C13_TurnCompletion ==
    [][/\ \A d \in OpenaiDecisions \cup BedrockDecisions :
             (d.reqs = <<>> /\ (Openai_round(d) \/ Bedrock_round(d))) =>
                 /\ pc' = "idle"
                 /\ ending' = "Done"
                 /\ answer' = TextOf(d)
       /\ (TurnEnds /\ ending' \in {"Done", "RoundLimit"}) =>
             returned' = conversation_history
                            \o <<Msg("user", Query), Msg("assistant", answer')>>]_vars

C15_NoRequestSkipped ==
    /\ \A i \in round.failed :
          \E k \in DOMAIN results :
              /\ results[k].n = round.n
              /\ results[k].i = i
              /\ results[k].content = "error"
    /\ (RoundOver /\ round.failed # {}) =>
          /\ round.invoked = Ids(round.reqs)
          /\ Len(ResultsOf(round.n)) = Len(round.reqs)

(***************************************************************************)
(* C16: at most one tool invocation is in flight at any point of a turn;   *)
(* the invocation of r(i+1) starts only after the result of ri has been    *)
(* received and appended; and an engine call starts only after all the     *)
(* results of the round before it are appended.                            *)
(***************************************************************************)
C16_Sequential ==
    /\ inflight <= 1
    /\ inflight = 1 => pc = "await"
    /\ pc = "await" =>
          /\ Len(round.invoked) = idx
          /\ Len(ResultsOf(round.n)) = idx - 1
    /\ (pc = "loop" /\ round.n > 0) =>
          /\ inflight = 0
          /\ Len(ResultsOf(round.n)) = Len(round.reqs)
          /\ \A k \in DOMAIN results : InList(messages, results[k])

C16_Witness ==
    /\ pc = "await"
    /\ inflight = 1
    /\ idx = 2
    /\ round.n = 2
    /\ \E k \in DOMAIN results : results[k].content = "error"

(***************************************************************************)
(* C17, as claimed: every tool result appended in a turn is followed by an *)
(* engine call of the same turn whose message list contains it.            *)
(***************************************************************************)
C17_EveryResultShown ==
    TurnOver =>
        \A k \in DOMAIN results :
            /\ results[k].n < engineCalls
            /\ InList(shown, results[k])

(***************************************************************************)
(* C17, amended: a tool result, once appended, is contained in the message *)
(* list of every engine call that follows it in the same turn.  An engine  *)
(* call follows it unless its round is the 5th, after which the turn ends  *)
(* in RoundLimitReached, or its round is cut short by an exception raised  *)
(* outside call_mcp_tool, after which the turn ends with the error answer. *)
(***************************************************************************)
C17_ResultsShownToLaterCalls ==
    /\ \A k \in DOMAIN results :
          results[k].n < engineCalls => InList(shown, results[k])
    /\ TurnOver =>
          \A k \in DOMAIN results :
              \/ results[k].n < engineCalls
              \/ /\ ending = "RoundLimit"
                 /\ results[k].n = max_iterations
              \/ /\ ending = "Error"
                 /\ results[k].n = round.n
                 /\ round.invoked # Ids(round.reqs)

C17_Witness ==
    /\ engineCalls = 3
    /\ pc = "tools"
    /\ \E k \in DOMAIN results : results[k].n = 1 /\ results[k].content = "error"
    /\ \E k \in DOMAIN results : results[k].n = 2 /\ results[k].i = 2


(***************************************************************************)
(* C18: run on the same sequence of decisions, the two bindings make the   *)
(* same number of engine calls and of tool invocations, end in the same    *)
(* terminal state and return the same text.                                *)
(***************************************************************************)
C18_BindingsAgree ==
    (provider = "bedrock" /\ TurnOver /\ first # NoOutcome) => Outcome = first

(***************************************************************************)
(* C19: an engine call that raises, in any round, does not make the turn   *)
(* function raise: the turn ends and returns a user-visible error string   *)
(* as its answer.                                                          *)
(***************************************************************************)
C19_EngineFailureSoft ==
    [][(Openai_engine_raises \/ Bedrock_engine_raises) =>
          /\ pc' = "idle"
          /\ ending' = "Error"
          /\ answer' = ErrorMsg
          /\ answer' \notin {"", "none"}]_vars

C19_Witness ==
    /\ TurnOver
    /\ provider = "bedrock"
    /\ ending = "Error"
    /\ engineCalls = 3
    /\ round.n = 2
    /\ Len(results) > 2

(***************************************************************************)
(* C20: for every value whose serialization is longer than max_chars, the  *)
(* string smart_truncate_result returns is at most max_chars long plus the *)
(* length of the fixed wrapper fields, whatever the value.                 *)
(***************************************************************************)
WrapperOverhead == Len(Dumps(Wrapper(<<>>)))

C20_BoundedSize ==
    (bounded # Pending /\ Len(Dumps(result)) > max_chars) =>
        Len(bounded) <= max_chars + WrapperOverhead

(***************************************************************************)
(* Vocabulary of the properties of result bounding.                        *)
(***************************************************************************)
\* The summary object with the given sample of the list v.
SummaryWith(v, sample) ==
    Obj(<<<<Lit.total_items, Num(Len(v.items))>>,
          <<Lit.showing, Num(Len(sample))>>,
          <<Lit.note, Text(Lit.Showing_first \o Digits(Len(sample)) \o Lit.of
                          \o Digits(Len(v.items)) \o Lit.items_)>>,
          <<Lit.sample_items, Arr(sample)>>>>)

\* The first 50 elements of a list of more than 50, in order.
First50(v) == [i \in 1..50 |-> v.items[i]]

Bounded == bounded # Pending

LongList == result.t = "list" /\ Len(result.items) > 50

ShortList == result.t = "list" /\ Len(result.items) <= 50

OverBudget == Len(Dumps(result)) > max_chars

(***************************************************************************)
(* C21, as claimed: for every list of more than 50 elements the output is  *)
(* the serialization of a summary whose sample_items are the first 50      *)
(* elements in order and whose total_items is the length of the list.      *)
(***************************************************************************)
C21_LongListSummarised ==
    (Bounded /\ LongList) => bounded = Dumps(SummaryWith(result, First50(result)))

(***************************************************************************)
(* C21, amended: for every list of more than 50 elements whose own         *)
(* serialization is longer than max_chars, the output is the first         *)
(* max_chars characters of the serialization of that summary, and the      *)
(* whole of it when it is at most max_chars long.                          *)
(***************************************************************************)
C21_LongListSummarisedOverBudget ==
    (Bounded /\ LongList /\ OverBudget) =>
        LET summary == Dumps(SummaryWith(result, First50(result)))
        IN /\ bounded = Prefix(summary, max_chars)
           /\ Len(summary) <= max_chars => bounded = summary

C21_Witness ==
    /\ Bounded /\ LongList /\ OverBudget
    /\ Len(result.items) = 100
    /\ bounded = Dumps(SummaryWith(result, First50(result)))
    /\ Len(bounded) < max_chars

(***************************************************************************)
(* C22: for every list of at most 50 elements whose serialization is       *)
(* longer than max_chars, the output is the serialized summary (of all the *)
(* elements) cut to max_chars characters, so its length is at most         *)
(* max_chars.                                                              *)
(***************************************************************************)
C22_ShortListCut ==
    (Bounded /\ ShortList /\ OverBudget) =>
        /\ bounded = Prefix(Dumps(SummaryWith(result, result.items)), max_chars)
        /\ Len(bounded) <= max_chars

C22_Witness ==
    /\ Bounded /\ ShortList /\ OverBudget
    /\ Len(result.items) = 50
    /\ Len(bounded) = max_chars
    /\ max_chars > MaxChars

(***************************************************************************)
(* C23: for every value whose serialization has at most max_chars          *)
(* characters (exactly max_chars included) the output is that              *)
(* serialization itself, neither wrapped nor summarised; so for an         *)
(* {error: ...} marker within the budget.                                  *)
(***************************************************************************)
C23_IdentityUnderBudget ==
    (Bounded /\ ~OverBudget) => bounded = Dumps(result)

C23_Witness ==
    /\ Bounded
    /\ result = Obj(<<<<(<<"e", "r", "r", "o", "r">>), Num(7)>>>>)
    /\ Len(Dumps(result)) = max_chars
    /\ bounded = <<"{", "\"", "e", "r", "r", "o", "r", "\"", ":", " ", "7", "}">>

(***************************************************************************)
(* Vocabulary of the properties of the tool-schema mapping.                *)
(***************************************************************************)
\* What is read back from an OpenAI-style schema ...
OpenaiName(schema) == Get(Get(schema, Lit.function), Lit.name)
OpenaiDescription(schema) == Get(Get(schema, Lit.function), Lit.description)
OpenaiParameters(schema) == Get(Get(schema, Lit.function), Lit.parameters)

\* ... and from a Bedrock-style one.
ClaudeName(schema) == Get(Get(schema, Lit.toolSpec), Lit.name)
ClaudeDescription(schema) == Get(Get(schema, Lit.toolSpec), Lit.description)
ClaudeInputSchema(schema) ==
    Get(Get(Get(schema, Lit.toolSpec), Lit.inputSchema), Lit.json)

NoDescription(tool) == tool.description \in {Null, Text(<<>>)}

NoInputSchema(tool) ==
    "inputSchema" \notin tool.attrs \/ tool.inputSchema \in {Null, Obj(<<>>)}

\* "Execute <name>"
ExecuteName(tool) == Text(<<"E", "x", "e", "c", "u", "t", "e", " ">> \o tool.name.s)

Listed == mpc \in {"convert", "chat"}

(***************************************************************************)
(* C24: for every descriptor, both conversions return a schema (neither    *)
(* fails); the schema carries the descriptor's name, its description or    *)
(* "Execute <name>" when the description is absent or empty, and its input *)
(* schema or {type: object, properties: {}, required: []} when the input   *)
(* schema is absent or empty; and main() keeps the schemas so converted.   *)
(***************************************************************************)
C24_MappingTotalWithDefaults ==
    /\ Listed =>
        \A i \in DOMAIN mcp_tools :
            LET tool == mcp_tools[i]
                openai == mcp_tool_to_openai_format(tool)
                claude == mcp_tool_to_claude_format(tool)
                description == IF NoDescription(tool) THEN ExecuteName(tool)
                               ELSE tool.description
                schema == IF NoInputSchema(tool)
                          THEN Obj(<<<<Lit.type, Text(<<"o", "b", "j", "e", "c", "t">>)>>,
                                     <<Lit.properties, Obj(<<>>)>>,
                                     <<Lit.required, Arr(<<>>)>>>>)
                          ELSE tool.inputSchema
            IN /\ openai.type = "return"
               /\ claude.type = "return"
               /\ OpenaiName(openai.schema) = tool.name
               /\ OpenaiDescription(openai.schema) = description
               /\ OpenaiParameters(openai.schema) = schema
               /\ ClaudeName(claude.schema) = tool.name
               /\ ClaudeDescription(claude.schema) = description
               /\ ClaudeInputSchema(claude.schema) = schema
    /\ mpc = "chat" =>
        /\ Len(llm_tools) = Len(mcp_tools)
        /\ \A i \in DOMAIN mcp_tools :
               llm_tools[i] = IF detected.provider = "bedrock"
                              THEN mcp_tool_to_claude_format(mcp_tools[i]).schema
                              ELSE mcp_tool_to_openai_format(mcp_tools[i]).schema

C24_Witness ==
    /\ mpc = "chat"
    /\ detected.provider = "bedrock"
    /\ Len(mcp_tools) = 1
    /\ mcp_tools[1].description = Null
    /\ "inputSchema" \notin mcp_tools[1].attrs
    /\ ClaudeDescription(llm_tools[1]) = Text(<<"E", "x", "e", "c", "u", "t", "e", " ", "b", "c">>)
    /\ Get(ClaudeInputSchema(llm_tools[1]), Lit.properties) = Obj(<<>>)

(***************************************************************************)
(* C25, as claimed: for every descriptor, the name, description and input  *)
(* schema read back from either schema are the descriptor's own.           *)
(***************************************************************************)
C25_RoundTrip ==
    Listed =>
        \A i \in DOMAIN mcp_tools :
            LET tool == mcp_tools[i]
                openai == mcp_tool_to_openai_format(tool).schema
                claude == mcp_tool_to_claude_format(tool).schema
            IN /\ OpenaiName(openai) = tool.name
               /\ OpenaiDescription(openai) = tool.description
               /\ OpenaiParameters(openai) = tool.inputSchema
               /\ ClaudeName(claude) = tool.name
               /\ ClaudeDescription(claude) = tool.description
               /\ ClaudeInputSchema(claude) = tool.inputSchema

(***************************************************************************)
(* C25, amended: the name is always read back; the description is read     *)
(* back as the descriptor's own when that is not empty, and the input      *)
(* schema as the descriptor's own when that is present and not empty.  An  *)
(* absent or empty one is read back as its default, so two descriptors     *)
(* that differ only there are read back the same.                          *)
(***************************************************************************)
C25_RoundTripOfGivenFields ==
    Listed =>
        \A i \in DOMAIN mcp_tools :
            LET tool == mcp_tools[i]
                openai == mcp_tool_to_openai_format(tool).schema
                claude == mcp_tool_to_claude_format(tool).schema
            IN /\ OpenaiName(openai) = tool.name
               /\ ClaudeName(claude) = tool.name
               /\ ~NoDescription(tool) =>
                    /\ OpenaiDescription(openai) = tool.description
                    /\ ClaudeDescription(claude) = tool.description
               /\ ~NoInputSchema(tool) =>
                    /\ OpenaiParameters(openai) = tool.inputSchema
                    /\ ClaudeInputSchema(claude) = tool.inputSchema
               /\ NoDescription(tool) =>
                    /\ OpenaiDescription(openai) # tool.description
                    /\ ClaudeDescription(claude) # tool.description
               /\ NoInputSchema(tool) =>
                    /\ OpenaiParameters(openai) # tool.inputSchema
                    /\ ClaudeInputSchema(claude) # tool.inputSchema

C25_Witness ==
    /\ mpc = "chat"
    /\ detected.provider = "openai"
    /\ Len(mcp_tools) = 1
    /\ mcp_tools[1].description = Text(<<"d">>)
    /\ mcp_tools[1].inputSchema = OneArgSchema
    /\ OpenaiName(llm_tools[1]) = mcp_tools[1].name
    /\ OpenaiDescription(llm_tools[1]) = Text(<<"d">>)
    /\ OpenaiParameters(llm_tools[1]) = OneArgSchema

(***************************************************************************)
(* C26: on a StdioTransport, when a disconnect has completed no child      *)
(* process the transport spawned is still running.                         *)
(***************************************************************************)
C26_NoOrphanedChild ==
    (kind = "stdio" /\ last.op = "disconnect" /\ last.type = "return") =>
        children = {}

(***************************************************************************)
(* C27: in HTTPTransport.list_tools and call_tool, an answer with a        *)
(* non-2xx status always fails with the status error, whatever its body    *)
(* (which is not read); a 2xx answer whose body is an error response fails *)
(* with the remote-error kind and carries the error payload; the status    *)
(* error is raised for no 2xx answer and the remote error for no non-2xx   *)
(* answer nor for a body without an error field.                           *)
(***************************************************************************)
HTTPAnswered ==
    /\ kind = "http"
    /\ last.op \in CallOps
    /\ last.resp # NoResp
    /\ last.resp.net = "ok"

Is2xx(st) == st >= 200 /\ st < 300

C27_StatusErrorDistinct ==
    HTTPAnswered =>
        /\ ~Is2xx(last.resp.status) =>
              /\ last.type = "raise"
              /\ last.exc = "HTTPStatusError"
              /\ last.errp = "none"
        /\ (Is2xx(last.resp.status) /\ last.resp.body = "json"
              /\ last.resp.env.keys = {"error"}) =>
              /\ last.type = "raise"
              /\ last.exc = "RemoteError"
              /\ last.errp = last.resp.env.error
        /\ last.exc = "HTTPStatusError" => ~Is2xx(last.resp.status)
        /\ last.exc = "RemoteError" =>
              /\ Is2xx(last.resp.status)
              /\ last.resp.body = "json"
              /\ "error" \in last.resp.env.keys

C27_Witness ==
    /\ HTTPAnswered
    /\ last.op = "call_tool"
    /\ last.resp.status = 500
    /\ last.resp.body = "json"
    /\ last.resp.env = Err("e1")
    /\ last.exc = "HTTPStatusError"

(***************************************************************************)
(* C28: get_llm_provider returns bedrock and the Bedrock key whenever      *)
(* AWS_BEDROCK_API_KEY holds a key, whatever OPENAI_API_KEY holds; openai  *)
(* and the OpenAI key when only OPENAI_API_KEY holds one; (None, None)     *)
(* when neither does, and then main() returns 1 (the exit status) without  *)
(* having connected to the tool server.  A variable that is set to the     *)
(* empty string holds no key.                                              *)
(***************************************************************************)
HoldsKey(v) == v.t = "str" /\ Len(v.s) > 0

C28_ProviderSelection ==
    mpc # "start" =>
        LET bedrock == environ["AWS_BEDROCK_API_KEY"]
            openai == environ["OPENAI_API_KEY"]
        IN /\ HoldsKey(bedrock) => detected = Provider("bedrock", bedrock)
           /\ (~HoldsKey(bedrock) /\ HoldsKey(openai)) =>
                 detected = Provider("openai", openai)
           /\ (~HoldsKey(bedrock) /\ ~HoldsKey(openai)) =>
                 /\ detected = Provider("None", Null)
                 /\ mpc = "exited"
                 /\ status = 1
                 /\ server = "untouched"

C28_Witness ==
    /\ mpc = "chat"
    /\ HoldsKey(environ["AWS_BEDROCK_API_KEY"])
    /\ HoldsKey(environ["OPENAI_API_KEY"])
    /\ detected.provider = "bedrock"
    /\ server = "connected"

(***************************************************************************)
(* C29: a turn makes at most 5 engine calls; a turn that has ended has     *)
(* made at least 1 and ended in Done, RoundLimitReached or the error       *)
(* answer; and every turn that was started does end, provided each engine  *)
(* call and each tool invocation returns.                                  *)
(***************************************************************************)
C29_TurnTerminates ==
    /\ [](engineCalls <= max_iterations)
    /\ [](TurnOver => /\ engineCalls >= 1
                      /\ ending \in {"Done", "RoundLimit", "Error"})
    /\ (pc # "idle") ~> TurnOver

C29_Witness ==
    /\ TurnOver
    /\ ending = "Done"
    /\ engineCalls = max_iterations
    /\ Len(results) > 0

(***************************************************************************)
(* C30: inside the body of "async with client" the connect made on the way *)
(* in has returned true: a client whose connect returned false is not      *)
(* handed out.                                                             *)
(***************************************************************************)
C30_ConnectFailureReported == ctx = "in" => conn = "ok"

(***************************************************************************)
(* C31: when the body of "async with client" has been left, the transport  *)
(* is in the disconnected state (disconnect returned, the handle is unset) *)
(* and a call made after it fails with the not-connected error.            *)
(***************************************************************************)
C31_ContextTearsDown ==
    /\ (ctx = "out" /\ last.op = "disconnect") =>
          /\ last.type = "return"
          /\ Handle = 0
          /\ conn = "disconnected"
    /\ (ctx = "out" /\ last.op \in CallOps /\ last.preConnects > 0) => Rejected

(***************************************************************************)
(* C32: within a turn the message list is well formed and only grows:      *)
(* every tool-result entry (an OpenAI entry of role tool; the Bedrock user *)
(* entry that follows a decision entry) comes after an assistant decision  *)
(* entry and names requests of the latest one before it, and between the   *)
(* start of a turn and its end every step leaves the list as it was or     *)
(* appends to it.                                                          *)
(***************************************************************************)
IsPrefix(a, b) == Len(a) <= Len(b) /\ SubSeq(b, 1, Len(a)) = a

Range(f) == {f[i] : i \in DOMAIN f}

\* Positions before i that hold an assistant entry.
AssistantsBefore(i) == {j \in 1..(i - 1) : messages[j].role = "assistant"}

\* Positions of the Bedrock entries that carry tool results.
ToolResultEntries ==
    {i \in 2..Len(messages) :
        /\ provider = "bedrock"
        /\ messages[i].role = "user"
        /\ messages[i - 1].role = "assistant"
        /\ messages[i - 1].tool_calls # <<>>}

MessagesWellFormed ==
    /\ \A i \in DOMAIN messages :
          messages[i].role = "tool" =>
             /\ AssistantsBefore(i) # {}
             /\ messages[i].tool_call_id
                   \in Range(messages[Latest(AssistantsBefore(i))].tool_calls)
    /\ \A i \in ToolResultEntries :
          /\ messages[i].content # <<>>
          /\ \A k \in DOMAIN messages[i].content :
                messages[i].content[k].toolUseId \in Range(messages[i - 1].tool_calls)
    /\ \A r \in Range(results) :
          r.at <= Len(messages) =>
             messages[r.at].role = (IF provider = "openai" THEN "tool" ELSE "user")

C32_MessagesGrowWellFormed ==
    /\ [](MessagesWellFormed)
    /\ [][(pc # "idle" /\ pc' # "idle") => IsPrefix(messages, messages')]_vars

C32_Witness ==
    /\ pc = "loop"
    /\ round.n = 2
    /\ Len(results) = 4
    /\ Len(messages) > Len(conversation_history) + 4

(***************************************************************************)
(* C33: the conversation history is changed by no step of a turn but its   *)
(* last: from the start of the turn to its terminal step it stays as it    *)
(* was, the terminal step returns it as it was or with the two entries of  *)
(* the exchange appended, and main() then applies the cap.  The requests   *)
(* and the results of the tools appear in the message list only.           *)
(***************************************************************************)
C33_HistoryUntouchedDuringRounds ==
    /\ [][pc' # "idle" => UNCHANGED conversation_history]_vars
    /\ [][(pc # "idle" /\ pc' = "idle") =>
            /\ returned' \in {conversation_history, Recorded(answer')}
            /\ conversation_history' = Cap(returned')]_vars
    /\ [](\A i \in DOMAIN conversation_history :
            /\ conversation_history[i].role \in {"system", "user", "assistant"}
            /\ conversation_history[i].tool_calls = <<>>)

C33_Witness ==
    /\ pc = "tools"
    /\ round.n = 2
    /\ asked = 11
    /\ Len(results) >= 2
    /\ conversation_history = HistoryAfter(provider, 10)

(***************************************************************************)
(* C34: a turn that ends in the except clause returns the history it was   *)
(* given, entry for entry: the step that ends it changes no entry, and the *)
(* history then holds neither the query of the turn nor any entry of a     *)
(* tools round.                                                            *)
(***************************************************************************)
C34_FailedTurnKeepsHistory ==
    /\ [][(pc # "idle" /\ pc' = "idle" /\ ending' = "Error") =>
            /\ returned' = conversation_history
            /\ conversation_history' = conversation_history]_vars
    /\ []((pc = "idle" /\ ending = "Error") =>
            /\ returned = conversation_history
            /\ \A i \in DOMAIN returned :
                  /\ returned[i].content # Query
                  /\ returned[i].role # "tool"
                  /\ returned[i].tool_calls = <<>>)

C34_Witness ==
    /\ pc = "idle"
    /\ ending = "Error"
    /\ Len(results) = 1
    /\ round.failed = {2}
    /\ asked = 11

(***************************************************************************)
(* C35: whenever no turn is under way, the entries of the history after    *)
(* the optional system entry alternate user, assistant, user, assistant:   *)
(* the first is a user entry, the last an assistant entry, and no two      *)
(* neighbours have the same role; also after the cap has cut the history.  *)
(***************************************************************************)
Exchanges(h) ==
    IF h # <<>> /\ h[1].role = "system" THEN SubSeq(h, 2, Len(h)) ELSE h

Alternates(e) ==
    /\ Len(e) % 2 = 0
    /\ \A i \in DOMAIN e :
          e[i].role = (IF i % 2 = 1 THEN "user" ELSE "assistant")

C35_RolesAlternate == pc = "idle" => Alternates(Exchanges(conversation_history))

(***************************************************************************)
(* C36: after the user has entered 'clear', the history holds no user or   *)
(* assistant entry of an earlier turn: it is empty or holds the system     *)
(* entry only, for either provider.                                        *)
(***************************************************************************)
C36_ClearForgets ==
    [][Main_clear =>
         \A i \in DOMAIN conversation_history' :
            conversation_history'[i].role = "system"]_vars

(***************************************************************************)
(* C37: when several tasks call list_tools / call_tool on one transport,   *)
(* interleaved at their await points in any order, no two requests are     *)
(* built with the same id: the id a task builds its request with is the    *)
(* value the counter takes in the very step that increments it.            *)
(***************************************************************************)
C37_IdsUniqueUnderInterleaving ==
    /\ [](\A t, u \in 1..MaxTasks :
            (t # u /\ tasks[t].id # 0 /\ tasks[u].id # 0) => tasks[t].id # tasks[u].id)
    /\ [](\A i, j \in DOMAIN sent : i # j => sent[i] # sent[j])
    /\ [][\A t \in 1..MaxTasks :
            tasks'[t].id # tasks[t].id =>
               /\ request_id' = request_id + 1
               /\ tasks'[t].id = request_id']_vars

C37_Witness ==
    /\ \A t \in 1..MaxTasks : tasks[t].at = "await"
    /\ kind = "http"
    /\ tasks[1].id = MaxTasks

(***************************************************************************)
(* C38: a list_tools or call_tool that fails with the not-connected error  *)
(* changes nothing in the transport: its handle, its request-id counter,   *)
(* the processes and clients it owns and the requests it has sent are as   *)
(* before the call, for every variant.                                     *)
(***************************************************************************)
C38_RejectedCallNoEffect ==
    [][(last'.op \in CallOps /\ last'.type = "raise" /\ last'.exc = "NotConnected"
        /\ last' # last)
       => UNCHANGED <<kind, process, client, request_id, children, clients, sent,
                      connects, conn>>]_vars

(***************************************************************************)
(* C39: the text a finished turn returned is never empty, for either       *)
(* provider and however the turn ended: a decision without text (or with   *)
(* empty text) that ends the turn yields the fixed fallback sentence.      *)
(***************************************************************************)
C39_AnswerNeverEmpty ==
    (pc = "idle" /\ ending # "none") =>
        /\ answer \notin {"", "none"}
        /\ ending = "Done" => answer \in {"t1", "I'm not sure how to help."}

C39_Witness ==
    /\ pc = "idle"
    /\ ending = "Done"
    /\ answer = "I'm not sure how to help."
    /\ engineCalls = 2
    /\ Len(results) = 2

(***************************************************************************)
(* C40: in the simple chat every turn appends one user entry with the      *)
(* query and then one assistant entry with the response, also when the     *)
(* response is the error string of a failed engine call; after the turn    *)
(* the history holds at most 20 entries, which are the latest entries of   *)
(* the appended history, in their order.                                   *)
(***************************************************************************)
C40_SimpleHistoryCapped ==
    /\ [](Len(conversation_history) <= 20)
    /\ [][turns' = turns + 1 =>
            /\ returned' = conversation_history
                              \o <<Msg("user", ToString(asked')),
                                   Msg("assistant", answer')>>
            /\ Len(conversation_history') = IF Len(returned') > 20 THEN 20
                                            ELSE Len(returned')
            /\ conversation_history' =
                  SubSeq(returned', Len(returned') - Len(conversation_history') + 1,
                         Len(returned'))]_vars

C40_Witness ==
    /\ turns = 11
    /\ Len(returned) = 22
    /\ Len(conversation_history) = 20
    /\ answer = "Error calling OpenAI: e"
    /\ conversation_history[1].content = "2"

====
